---- MODULE Spec2Model ----
(***************************************************************************)
(* State-machine model of the rayflow engine core:                         *)
(*   - RayObject   (src/src/engine/webgpu/ray-object.ts)                   *)
(*   - RayMarcher  (src/src/engine/webgpu/ray-march.ts)                    *)
(*   - Engine      (src/src/engine/engine.ts)                              *)
(*   - the picking part of the fragment shader (raymarch.wgsl)             *)
(*                                                                         *)
(* GPU buffers are modelled as handles into the sequence `buffers`; a      *)
(* buffer has a byte size, a destroyed flag and its contents, one record   *)
(* per slot that fits entirely into the buffer.  Queue operations that     *)
(* WebGPU rejects on the device timeline (out-of-range writeBuffer, a      *)
(* command buffer with an out-of-range copy, use of a destroyed buffer)    *)
(* raise a validation error there and have no effect on any buffer; they   *)
(* do not throw into the calling JavaScript.                                *)
(***************************************************************************)
EXTENDS Integers, Sequences, FiniteSets, TLC

\* ------------------------------------------------------------------------
\* Bounds of the model
\* ------------------------------------------------------------------------
\* number of RayObject instances the application constructs
MaxObjects == 3
\* byte size of one object record; stands for the 80 bytes of
\* RayObject.GPU_DATA_SIZE_WPAD_BYTES, scaled down so that the object count
\* can reach the byte size of the buffer
GPU_DATA_SIZE_WPAD_BYTES == 2
\* number of records of the initial object buffer; stands for the 128 of
\* the RayMarcher constructor
InitialRecords == 1
\* number of attribute assignments (inspector edits) explored
MaxEdits == 1

\* number of readCollisionBuffer invocations that can be in flight at once
MaxReadbacks == 2
\* number of camera movements (orbit, pan, zoom) explored
MaxCamMoves == 1
\* number of RayObjects constructed in the process: one more than the
\* 65536 values of the 16 bits generateId keeps of its counter
MaxCreations == 65537
\* number of zoom calls in a row explored
MaxZooms == 50
\* number of calls of the operations of the Camera explored
MaxCameraCalls == 3
\* canvas.width and canvas.height, in pixels
CanvasW == 32
CanvasH == 32

\* ------------------------------------------------------------------------
\* Values
\* ------------------------------------------------------------------------
\* Lengths, and the components of position, rotation, scale and color, are
\* fixed-point numbers: UNIT stands for 1.0.  Angles of the camera are in
\* milliradians and sines and cosines are in thousandths.
UNIT == 100
\* an optional value: None is JavaScript's undefined, Some(x) a defined value
None == <<>>
Some(x) == <<x>>
IsSome(v) == v # <<>>
Val(v) == v[1]

\* the null object reference (RayMarcher._activeObject is undefined until the
\* first selectObject; every use of it in the source treats undefined and
\* null alike, and both are NULL here)
NULL == 0

Objs == 1..MaxObjects
\* the objects the application adds in the specifications of the engine
SceneObjs == {1, 2}

\* PrimitiveType.CUBOID, the default primitive of the RayObject constructor
CUBOID == 1

\* the random salt generateId draws for the object created as the g-th
SaltOf(g) == IF g % 2 = 1 THEN 0 ELSE 65534

\* values of Math.floor(Math.random() * 0xffff): the least and the greatest
IdSalts == {0, 65534}

\* values an attribute is assigned by an edit
EditValues == {<<0, 0, 0>>, <<UNIT, 2 * UNIT, 3 * UNIT>>}
EditFields == {"position", "rotation", "scale", "color"}

\* ------------------------------------------------------------------------
\* Float32Array conversion of an integer: exact up to 2^24, beyond that
\* rounded to the nearest representable value (ties to even)
\* ------------------------------------------------------------------------
RECURSIVE Ulp(_, _)
Ulp(x, u) == IF x \div u < 16777216 THEN u ELSE Ulp(x, 2 * u)

F32abs(x) ==
    IF x <= 16777216 THEN x
    ELSE LET u == Ulp(x, 1)
             q == x \div u
             r == x % u
         IN  IF 2 * r > u \/ (2 * r = u /\ q % 2 = 1)
             THEN (q + 1) * u ELSE q * u

F32(x) == IF x < 0 THEN 0 - F32abs(0 - x) ELSE F32abs(x)

F32vec(v) == <<F32(v[1]), F32(v[2]), F32(v[3])>>

\* ------------------------------------------------------------------------
\* Vector arithmetic of gl-matrix, in fixed point
\* ------------------------------------------------------------------------
RECURSIVE SqrtIter(_, _, _)
SqrtIter(n, lo, hi) ==
    IF lo >= hi THEN lo
    ELSE LET mid == (lo + hi + 1) \div 2
         IN  IF mid * mid <= n THEN SqrtIter(n, mid, hi) ELSE SqrtIter(n, lo, mid - 1)

\* floor of the square root
ISqrt(n) == IF n <= 0 THEN 0 ELSE SqrtIter(n, 0, 46340)

Abs(x) == IF x < 0 THEN 0 - x ELSE x

\* x / y rounded toward zero
Quot(x, y) == IF (x < 0) = (y < 0) THEN Abs(x) \div Abs(y) ELSE 0 - (Abs(x) \div Abs(y))

VAdd(a, b) == <<a[1] + b[1], a[2] + b[2], a[3] + b[3]>>
VSub(a, b) == <<a[1] - b[1], a[2] - b[2], a[3] - b[3]>>
\* vec3.scale(a, k / d)
VScale(a, k, d) == <<Quot(a[1] * k, d), Quot(a[2] * k, d), Quot(a[3] * k, d)>>
VLength(a) == ISqrt(a[1] * a[1] + a[2] * a[2] + a[3] * a[3])
\* vec3.dist
VDist(a, b) == VLength(VSub(a, b))
\* vec3.normalize: a unit vector in thousandths; the zero vector stays zero
VNormalize(a) == IF VLength(a) = 0 THEN <<0, 0, 0>> ELSE VScale(a, 1000, VLength(a))
\* vec3.cross of two vectors in thousandths, in thousandths
VCross(a, b) == << Quot(a[2] * b[3] - a[3] * b[2], 1000),
                   Quot(a[3] * b[1] - a[1] * b[3], 1000),
                   Quot(a[1] * b[2] - a[2] * b[1], 1000) >>

\* pi and 2 pi in milliradians
PI_MRAD == 3142
TWO_PI_MRAD == 6283

\* sine of x milliradians, 0 <= x <= pi/2, in thousandths (Taylor series)
SinQ(x) ==
    LET x2 == (x * x) \div 1000
        t3 == (x * x2) \div 6000
        t5 == (t3 * x2) \div 20000
        t7 == (t5 * x2) \div 42000
        r  == x - t3 + t5 - t7
    IN  IF r > 1000 THEN 1000 ELSE r

\* Math.sin of a milliradians, in thousandths
Sin(a) ==
    LET r == a % TWO_PI_MRAD
    IN  IF r <= 1571 THEN SinQ(r)
        ELSE IF r <= 3142 THEN SinQ(3142 - r)
        ELSE IF r <= 4712 THEN 0 - SinQ(r - 3142)
        ELSE 0 - SinQ(6283 - r)

\* Math.cos of a milliradians, in thousandths
Cos(a) == Sin(a + 1571)

RECURSIVE AcosIter(_, _, _)
AcosIter(c, lo, hi) ==
    IF lo >= hi THEN lo
    ELSE LET mid == (lo + hi) \div 2
         IN  IF Cos(mid) <= c THEN AcosIter(c, lo, mid) ELSE AcosIter(c, mid + 1, hi)

\* Math.acos of c thousandths, in milliradians (0 .. pi)
Acos(c) == IF c >= 1000 THEN 0 ELSE IF c <= 0 - 1000 THEN PI_MRAD ELSE AcosIter(c, 0, PI_MRAD)

\* Math.atan2(y, x), in milliradians (-pi .. pi)
Atan2(y, x) ==
    LET h == ISqrt(x * x + y * y)
    IN  IF h = 0 THEN 0
        ELSE IF y >= 0 THEN Acos(Quot(x * 1000, h))
        ELSE 0 - Acos(Quot(x * 1000, h))

Max(a, b) == IF a >= b THEN a ELSE b
Min(a, b) == IF a <= b THEN a ELSE b

\* ------------------------------------------------------------------------
\* RayObject
\* ------------------------------------------------------------------------
\* ((globalId & 0xffff) << 16) | (salt & 0xffff), as a signed 32-bit integer
generateId(globalId, salt) ==
    LET hi == globalId % 65536
    IN  (IF hi >= 32768 THEN hi - 65536 ELSE hi) * 65536 + (salt % 65536)

\* a freshly constructed RayObject with the constructor's default arguments
NewRayObject(globalId, salt) ==
    [ position     |-> <<0, 0, 0>>,
      rotation     |-> <<0, 0, 0>>,
      scale        |-> <<UNIT, UNIT, UNIT>>,
      color        |-> <<UNIT, UNIT, UNIT>>,
      primitive    |-> CUBOID,
      id           |-> generateId(globalId, salt),
      _device      |-> None,
      _objectBuffer |-> None,
      _index       |-> None ]

\* the record sync() assembles in its Float32Array
GPURecord(o) ==
    [ position  |-> F32vec(o.position),
      rotation  |-> F32vec(o.rotation),
      scale     |-> F32vec(o.scale),
      color     |-> F32vec(o.color),
      primitive |-> F32(o.primitive),
      id        |-> F32(o.id) ]

\* the content of a slot of a newly created (zero-initialised) buffer
ZeroRecord ==
    [ position  |-> <<0, 0, 0>>,
      rotation  |-> <<0, 0, 0>>,
      scale     |-> <<0, 0, 0>>,
      color     |-> <<0, 0, 0>>,
      primitive |-> 0,
      id        |-> 0 ]

\* variant: destroy() leaves the GPU linkage of the object in place
Destroyed_KeepsLinkage(o) ==
    [ o EXCEPT !.position = <<0, 0, 0>>, !.rotation = <<0, 0, 0>>,
               !.scale = <<0, 0, 0>>, !.color = <<0, 0, 0>> ]

\* variant: destroy() clears the slot index only
Destroyed_KeepsBuffer(o) ==
    [ o EXCEPT !._index = None,
               !.position = <<0, 0, 0>>, !.rotation = <<0, 0, 0>>,
               !.scale = <<0, 0, 0>>, !.color = <<0, 0, 0>> ]

\* RayObject.destroy()
Destroyed(o) ==
    [ o EXCEPT !._device = None, !._objectBuffer = None, !._index = None,
               !.position = <<0, 0, 0>>, !.rotation = <<0, 0, 0>>,
               !.scale = <<0, 0, 0>>, !.color = <<0, 0, 0>> ]

\* ------------------------------------------------------------------------
\* GPU buffers
\* ------------------------------------------------------------------------
\* device.createBuffer({size}): a zero-initialised buffer of `size` bytes
CreateBuffer(size) ==
    [ size      |-> size,
      destroyed |-> FALSE,
      data      |-> [s \in 1..(size \div GPU_DATA_SIZE_WPAD_BYTES) |-> ZeroRecord] ]

\* a record-sized access at byte `offset` of buffer b passes validation
RangeValid(b, offset) ==
    /\ ~b.destroyed
    /\ offset >= 0
    /\ offset + GPU_DATA_SIZE_WPAD_BYTES <= b.size

\* queue.writeBuffer(handle, offset, record); dropped when invalid
WriteRecord(bufs, handle, offset, rec) ==
    IF RangeValid(bufs[handle], offset)
    THEN [bufs EXCEPT ![handle].data[(offset \div GPU_DATA_SIZE_WPAD_BYTES) + 1] = rec]
    ELSE bufs

\* the record held at slot `idx`, or None when the slot is outside
RecordAt(b, idx) ==
    IF idx + 1 \in DOMAIN b.data THEN Some(b.data[idx + 1]) ELSE None

\* ------------------------------------------------------------------------
\* State
\* ------------------------------------------------------------------------
VARIABLES
    obj,                   \* the RayObject instances, by identity
    objects,               \* RayMarcher.objects
    buffers,               \* every GPU object buffer created so far, by handle
    objectBuffer,          \* RayMarcher.objectBuffer (a handle)
    bindGroupObjectBuffer, \* the buffer bound at binding 1 of RayMarcher.bindGroup
    objectCountBuffer,     \* content of RayMarcher.objectCountBuffer (u32)
    lastUniforms,          \* RayMarcher.lastUniforms
    uniformBuffer,         \* content of RayMarcher.uniformBuffer
    rm_activeObject,       \* RayMarcher._activeObject
    engine_activeObject,   \* Engine._activeObject
    objectHitBuffer,       \* content of RayMarcher.objectHitBuffer: <<type, index>>
    staging,               \* RayMarcher.objectHitStagingBuffer: content and map state
    collisionPending,      \* RayMarcher.collisionPending
    lastCollision,         \* RayMarcher.lastCollision
    readback,              \* position of every readCollisionBuffer invocation in flight
    cameraBuffer,          \* content of RayMarcher.cameraBuffer
    picked,                \* history: the object in the slot a hit names, taken when
                           \* the picking pass wrote the hit; for the hit buffer
                           \* and for its copy in the staging buffer
    isLeftDown,            \* locals of Engine.setupEventListeners
    isRightDown,
    lastMouse,
    lastMouseOnClick,
    gizmoAxe,
    leftPressedAt,         \* history: where the left button now held was pressed
    camera,                \* Engine.camera
    hierarchyPanel,        \* the HierarchyPanel of the application: its items (each
                           \* named by the object it refers to) and _activeItem
    startup,               \* Engine.create: position, requestAdapter calls,
                           \* listeners installed, Engine returned
    globalId,              \* RayObject.globalId
    added,                 \* history: the objects that have been passed to addObject
    dirty,                 \* history: attribute assigned since sync() was last invoked
    editCount,             \* history: number of attribute assignments so far
    camMoves,              \* history: number of camera movements so far
    called,                \* history: engine callbacks invoked by the last operation
    lastOp                 \* history: the operation performed last (for a
                           \* mouseup, idx is 1 when the pointer is near the
                           \* press position, plus 2 when the step releases
                           \* the held left button)

\* Engine.create has returned an Engine
Running == [pc |-> "running", requests |-> 1, listeners |-> TRUE, engine |-> TRUE]

registryVars == <<obj, objects, buffers, objectBuffer, bindGroupObjectBuffer,
                  objectCountBuffer, lastUniforms, uniformBuffer,
                  rm_activeObject, engine_activeObject, startup, hierarchyPanel, globalId,
                  added, dirty, editCount>>

pickVars == <<objectHitBuffer, staging, collisionPending, lastCollision, readback,
              cameraBuffer, picked>>

inputVars == <<isLeftDown, isRightDown, lastMouse, lastMouseOnClick, gizmoAxe,
               leftPressedAt>>

vars == <<registryVars, pickVars, inputVars, camera, camMoves, called, lastOp>>

\* ------------------------------------------------------------------------
\* RayMarcher.updateUniforms
\* ------------------------------------------------------------------------
UniformFields == {"resolution", "mouse", "time", "deltaTime", "picking", "activeObjectIdx"}

\* a patch that sets no field
NoPatch == [f \in UniformFields |-> None]

\* variant: this.lastUniforms = uniforms, the patch replaces the retained state
MergeUniforms_Replace(lu, patch) == patch

\* the merge loop of updateUniforms: fields that are undefined in the patch
\* keep the retained value
MergeUniforms(lu, patch) ==
    [f \in UniformFields |-> IF IsSome(patch[f]) THEN patch[f] ELSE lu[f]]

\* the Float32Array(12) that updateUniforms uploads
UniformData(lu) ==
    [ resolution      |-> IF IsSome(lu.resolution) THEN Val(lu.resolution) ELSE <<0, 0>>,
      mouse           |-> IF IsSome(lu.mouse) THEN Val(lu.mouse) ELSE <<0, 0, 0, 0>>,
      time            |-> IF IsSome(lu.time) THEN Val(lu.time) ELSE 0,
      deltaTime       |-> IF IsSome(lu.deltaTime) THEN Val(lu.deltaTime) ELSE 0,
      picking         |-> IF lu.picking = Some(TRUE) THEN 1 ELSE 0,
      activeObjectIdx |-> IF IsSome(lu.activeObjectIdx) THEN Val(lu.activeObjectIdx) ELSE 0 - 1 ]

\* RayMarcher.updateUniforms(patch), called by any client
UpdateUniforms(patch) ==
    /\ lastUniforms' = MergeUniforms(lastUniforms, patch)
    /\ uniformBuffer' = UniformData(lastUniforms')
    /\ lastOp' = [op |-> "updateUniforms", arg |-> patch, idx |-> 0 - 1]
    /\ called' = <<>>
    /\ UNCHANGED <<obj, objects, buffers, objectBuffer, bindGroupObjectBuffer,
                   objectCountBuffer, rm_activeObject, engine_activeObject,
                   startup, hierarchyPanel, globalId, added, dirty, editCount>>
    /\ UNCHANGED <<pickVars, inputVars, camera, camMoves>>

\* the patches of the specification of the uniforms: every field absent
\* (or undefined) or one of a few values
Patches ==
    [ resolution      : {None, Some(<<16, 8>>)},
      mouse           : {None, Some(<<4, 4, 1, 0>>)},
      time            : {None, Some(1), Some(2)},
      deltaTime       : {None, Some(1)},
      picking         : {None, Some(TRUE), Some(FALSE)},
      activeObjectIdx : {None, Some(0)} ]

\* variant: obj?.index || -1, which takes slot 0 for no slot
SelectIdx_Falsy(objs, o) ==
    IF o = NULL THEN 0 - 1
    ELSE IF IsSome(objs[o]._index) /\ Val(objs[o]._index) # 0
         THEN Val(objs[o]._index) ELSE 0 - 1

\* the activeObjectIdx RayMarcher.selectObject passes: obj?.index ?? -1
SelectIdx(objs, o) ==
    IF o = NULL THEN 0 - 1
    ELSE IF IsSome(objs[o]._index) THEN Val(objs[o]._index) ELSE 0 - 1

\* variant: selectObject leaves the uniforms as they are
SelectUniforms_Stale(lu, objs, o) == lu

\* lastUniforms after RayMarcher.selectObject(o)
SelectUniforms(lu, objs, o) ==
    MergeUniforms(lu, [NoPatch EXCEPT !.activeObjectIdx = Some(SelectIdx(objs, o))])

\* ------------------------------------------------------------------------
\* RayObject.sync
\* ------------------------------------------------------------------------
SyncWrite(bufs, o) ==
    IF o._device = None \/ o._objectBuffer = None \/ o._index = None
    THEN bufs
    ELSE WriteRecord(bufs, Val(o._objectBuffer),
                     Val(o._index) * GPU_DATA_SIZE_WPAD_BYTES, GPURecord(o))

\* ------------------------------------------------------------------------
\* RayMarcher.addObject
\* ------------------------------------------------------------------------
\* the growth condition of addObject
NeedsGrow(n, b) == n >= b.size

\* byte size of the buffer that replaces buffer b
GrowSize(b) == b.size * 2

\* variant: the old contents are not copied into the new buffer
GrowCopy_NoCopy(old) == CreateBuffer(GrowSize(old))

\* the new buffer after copyBufferToBuffer(old, 0, new, 0, old.size)
GrowCopy(old) ==
    LET new == CreateBuffer(GrowSize(old))
    IN  [new EXCEPT !.data =
            [s \in DOMAIN new.data |->
                IF s \in DOMAIN old.data THEN old.data[s] ELSE new.data[s]]]

\* o = new RayObject(): the client constructs an object and keeps it where
\* it kept an object that is neither registered nor selected
CreateObject(o, salt) ==
    /\ globalId < MaxCreations
    /\ obj[o]._index = None
    /\ \A i \in DOMAIN objects : objects[i] # o
    /\ rm_activeObject # o
    /\ engine_activeObject # o
    /\ globalId' = globalId + 1
    /\ obj' = [obj EXCEPT ![o] = NewRayObject(globalId', salt)]
    /\ added' = added \ {o}
    /\ dirty' = [dirty EXCEPT ![o] = FALSE]
    /\ lastOp' = [op |-> "new", arg |-> o, idx |-> 0 - 1]
    /\ called' = <<>>
    /\ UNCHANGED <<objects, buffers, objectBuffer, bindGroupObjectBuffer,
                   objectCountBuffer, lastUniforms, uniformBuffer,
                   rm_activeObject, engine_activeObject, startup, hierarchyPanel, editCount>>
    /\ UNCHANGED <<pickVars, inputVars, camera, camMoves>>

\* Engine.addObject(o) = RayMarcher.addObject(o).  The application adds
\* every object once, right after constructing it.
AddObject(o) ==
    /\ o \notin added
    /\ added' = added \cup {o}
    /\ LET n     == Len(objects)
           grow  == NeedsGrow(n, buffers[objectBuffer])
           bufs1 == IF grow
                    THEN Append([buffers EXCEPT ![objectBuffer].destroyed = TRUE],
                                GrowCopy(buffers[objectBuffer]))
                    ELSE buffers
           ob1   == IF grow THEN Len(buffers) + 1 ELSE objectBuffer
           o1    == [obj[o] EXCEPT !._objectBuffer = Some(ob1),
                                   !._device = Some("device"),
                                   !._index = Some(n)]
       IN  /\ objectBuffer' = ob1
           /\ obj' = [obj EXCEPT ![o] = o1]
           /\ objects' = Append(objects, o)
           /\ objectCountBuffer' = Len(objects) + 1
           /\ buffers' = SyncWrite(bufs1, o1)
           /\ dirty' = [dirty EXCEPT ![o] = FALSE]
           /\ lastOp' = [op |-> "addObject", arg |-> o, idx |-> n]
    /\ called' = <<>>
    /\ UNCHANGED <<bindGroupObjectBuffer, lastUniforms, uniformBuffer,
                   rm_activeObject, engine_activeObject, startup, hierarchyPanel, globalId, editCount>>
    /\ UNCHANGED <<pickVars, inputVars, camera, camMoves>>

\* ------------------------------------------------------------------------
\* RayMarcher.removeObject
\* ------------------------------------------------------------------------
\* the early return of removeObject
RemoveIgnored(o) ==
    \/ obj[o]._index = None
    \/ Val(obj[o]._index) < 0
    \/ Val(obj[o]._index) >= Len(objects)

\* the two copyBufferToBuffer of the swap, through the temporary buffer:
\* record lastIdx is copied over record idx; the command buffer is invalid,
\* and nothing is copied, when either range lies outside the buffer
SwapCopy(bufs, handle, idx, lastIdx) ==
    IF /\ RangeValid(bufs[handle], lastIdx * GPU_DATA_SIZE_WPAD_BYTES)
       /\ RangeValid(bufs[handle], idx * GPU_DATA_SIZE_WPAD_BYTES)
    THEN [bufs EXCEPT ![handle].data[idx + 1] = bufs[handle].data[lastIdx + 1]]
    ELSE bufs

\* variant: the last object is not stored into the vacated position
SwapRemove_PopOnly(objs, idx) == SubSeq(objs, 1, Len(objs) - 1)

\* variant: the array is spliced, the objects behind idx shift down by one
SwapRemove_Splice(objs, idx) ==
    [i \in 1..(Len(objs) - 1) |-> IF i <= idx THEN objs[i] ELSE objs[i + 1]]

\* the objects array after the swap and the pop
SwapRemove(objs, idx) ==
    LET lastIdx == Len(objs) - 1
        swapped == IF idx # lastIdx
                   THEN [objs EXCEPT ![idx + 1] = objs[lastIdx + 1]]
                   ELSE objs
    IN  SubSeq(swapped, 1, lastIdx)

\* variant: the selection is never cleared
ClearsSelection_Never(active, o) == FALSE

\* if (this._activeObject === obj) this.selectObject(null)
ClearsSelection(active, o) == active = o

\* Engine.removeObject(o) = RayMarcher.removeObject(o)
RemoveObject(o) ==
    /\ IF RemoveIgnored(o)
       THEN UNCHANGED registryVars
       ELSE LET idx     == Val(obj[o]._index)
                lastIdx == Len(objects) - 1
                lastObj == objects[lastIdx + 1]
                swap    == idx # lastIdx
                obj1    == IF swap THEN [obj EXCEPT ![lastObj]._index = Some(idx)] ELSE obj
                \* if (this._activeObject === lastObj) this.selectObject(lastObj)
                lu1     == IF swap /\ rm_activeObject = lastObj
                           THEN SelectUniforms(lastUniforms, obj1, lastObj)
                           ELSE lastUniforms
                clear   == ClearsSelection(rm_activeObject, o)
                lu2     == IF clear THEN SelectUniforms(lu1, obj1, NULL) ELSE lu1
            IN  /\ buffers' = IF swap
                              THEN SwapCopy(buffers, objectBuffer, idx, lastIdx)
                              ELSE buffers
                /\ objects' = SwapRemove(objects, idx)
                /\ objectCountBuffer' = Len(objects) - 1
                /\ lastUniforms' = lu2
                \* updateUniforms uploads in both selectObject calls
                /\ uniformBuffer' = IF clear \/ (swap /\ rm_activeObject = lastObj)
                                    THEN UniformData(lu2) ELSE uniformBuffer
                /\ rm_activeObject' = IF clear THEN NULL ELSE rm_activeObject
                /\ obj' = [obj1 EXCEPT ![o] = Destroyed(obj1[o])]
                /\ UNCHANGED <<objectBuffer, bindGroupObjectBuffer,
                               engine_activeObject, startup, hierarchyPanel, globalId, added, dirty, editCount>>
    /\ lastOp' = [op |-> "removeObject", arg |-> o,
                  idx |-> SelectIdx(obj, o)]
    /\ called' = <<>>
    /\ UNCHANGED <<pickVars, inputVars, camera, camMoves>>

\* ------------------------------------------------------------------------
\* Engine.selectObject / RayMarcher.selectObject
\* ------------------------------------------------------------------------
\* The application selects objects of the registry, or null.
SelectObject(o) ==
    /\ lastUniforms' = SelectUniforms(lastUniforms, obj, o)
    /\ uniformBuffer' = UniformData(lastUniforms')
    /\ rm_activeObject' = o
    /\ engine_activeObject' = o
    /\ lastOp' = [op |-> "selectObject", arg |-> o, idx |-> SelectIdx(obj, o)]
    /\ called' = <<>>
    /\ UNCHANGED <<obj, objects, buffers, objectBuffer, bindGroupObjectBuffer,
                   objectCountBuffer, startup, hierarchyPanel, globalId, added, dirty, editCount>>
    /\ UNCHANGED <<pickVars, inputVars, camera, camMoves>>

\* ------------------------------------------------------------------------
\* Attribute assignment and RayObject.sync()
\* ------------------------------------------------------------------------
\* obj.<field> = value, by any holder of the object
EditAttribute(o, f, v) ==
    /\ editCount < MaxEdits
    /\ obj[o][f] # v
    /\ obj' = [obj EXCEPT ![o][f] = v]
    /\ dirty' = [dirty EXCEPT ![o] = TRUE]
    /\ editCount' = editCount + 1
    /\ lastOp' = [op |-> "edit", arg |-> o, idx |-> 0 - 1]
    /\ called' = <<>>
    /\ UNCHANGED <<objects, buffers, objectBuffer, bindGroupObjectBuffer,
                   objectCountBuffer, lastUniforms, uniformBuffer,
                   rm_activeObject, engine_activeObject, startup, hierarchyPanel, globalId, added>>
    /\ UNCHANGED <<pickVars, inputVars, camera, camMoves>>

\* obj.sync()
Sync(o) ==
    /\ buffers' = SyncWrite(buffers, obj[o])
    /\ dirty' = [dirty EXCEPT ![o] = FALSE]
    /\ lastOp' = [op |-> "sync", arg |-> o, idx |-> 0 - 1]
    /\ called' = <<>>
    /\ UNCHANGED <<obj, objects, objectBuffer, bindGroupObjectBuffer,
                   objectCountBuffer, lastUniforms, uniformBuffer,
                   rm_activeObject, engine_activeObject, startup, hierarchyPanel, globalId, added, editCount>>
    /\ UNCHANGED <<pickVars, inputVars, camera, camMoves>>

\* ------------------------------------------------------------------------
\* The field-edit callback of the inspector (main.ts)
\* ------------------------------------------------------------------------
\* the names of the fields of the inspector
FieldNames == {"Position", "Rotation", "Scale", "Material"}

\* the colours the Material field reports: channels in 0..255
ColorValues == {<<255, 51, 0>>, <<0, 102, 255>>}

\* the values a field reports
FieldValues(name) == IF name = "Material" THEN ColorValues ELSE EditValues

\* the attribute the callback assigns for a field
FieldAttribute(name) ==
    IF name = "Position" THEN "position"
    ELSE IF name = "Rotation" THEN "rotation"
    ELSE IF name = "Scale" THEN "scale"
    ELSE "color"

\* variant: the Material triple is assigned as reported
AssignedValue_Raw(name, value) == value

\* the value the callback assigns: [value[0] / 255, value[1] / 255,
\* value[2] / 255] for Material, in hundredths
AssignedValue(name, value) ==
    IF name = "Material"
    THEN <<(value[1] * UNIT) \div 255, (value[2] * UNIT) \div 255,
           (value[3] * UNIT) \div 255>>
    ELSE value

\* inpectorPanel.onFieldChangeCb(name, type, value)
FieldChange(name, value) ==
    /\ lastOp' = [op |-> "fieldChange", arg |-> <<name, value>>, idx |-> 0 - 1]
    /\ called' = <<>>
    /\ IF engine_activeObject = NULL
       THEN UNCHANGED <<obj, buffers, dirty, editCount>>
       ELSE LET o  == engine_activeObject
                o1 == [obj[o] EXCEPT ![FieldAttribute(name)] = AssignedValue(name, value)]
            IN  /\ editCount < MaxEdits
                /\ obj' = [obj EXCEPT ![o] = o1]
                /\ buffers' = SyncWrite(buffers, o1)
                /\ dirty' = [dirty EXCEPT ![o] = FALSE]
                /\ editCount' = editCount + 1
    /\ UNCHANGED <<objects, objectBuffer, bindGroupObjectBuffer,
                   objectCountBuffer, lastUniforms, uniformBuffer,
                   rm_activeObject, engine_activeObject, startup, hierarchyPanel, globalId, added>>
    /\ UNCHANGED <<pickVars, inputVars, camera, camMoves>>

\* ------------------------------------------------------------------------
\* Camera
\* ------------------------------------------------------------------------
\* Camera.worldUp, as a unit vector in thousandths
worldUp == <<0, 1000, 0>>

\* orbitSpeed 0.005 rad per pixel, in milliradians per pixel
OrbitSpeedMrad == 5
\* the polar clamp [0.1, pi - 0.1] of orbit, in milliradians
PhiMin == 100
PhiMax == PI_MRAD - 100
\* panSpeed 0.01 per pixel, in fixed-point length per pixel
PanSpeed == UNIT \div 100
\* zoomSpeed 0.05 per wheel unit, as a fraction ZoomSpeedNum / ZoomSpeedDen of UNIT
ZoomSpeedNum == UNIT
ZoomSpeedDen == 20
\* minRadius 1.0 and maxRadius 50 of zoom
MinRadius == UNIT
MaxRadius == 50 * UNIT

\* the matrices updateMatrices derives are kept symbolically, as the
\* position, target and aspect they were computed from
Matrices(position, target, aspect) ==
    [position |-> position, target |-> target, aspect |-> aspect]

\* the world-space right and up axes mat4.lookAt yields (unit, thousandths)
LookAtRight(position, target) ==
    VNormalize(VCross(worldUp, VNormalize(VSub(position, target))))

LookAtUp(position, target) ==
    LET z == VNormalize(VSub(position, target))
    IN  VNormalize(VCross(z, LookAtRight(position, target)))

\* Camera.updateMatrices()
updateMatrices(c) ==
    [c EXCEPT !.matrices = Matrices(c.position, c.target, c.aspect),
              !.right = LookAtRight(c.position, c.target),
              !.up = LookAtUp(c.position, c.target)]

\* variant: the polar angle is not clamped
orbit_NoClamp(c, dx, dy) ==
    LET offset == VSub(c.position, c.target)
        radius == VLength(offset)
        theta0 == Atan2(offset[3], offset[1])
        phi0   == Acos(Quot(offset[2] * 1000, radius))
        theta  == theta0 + dx * OrbitSpeedMrad
        phi    == phi0 - dy * OrbitSpeedMrad
        rs     == Quot(radius * Sin(phi), 1000)
        new    == << Quot(rs * Cos(theta), 1000),
                     Quot(radius * Cos(phi), 1000),
                     Quot(rs * Sin(theta), 1000) >>
    IN  [c EXCEPT !.position = VAdd(c.target, new)]

\* variant: the pointer delta dy raises the polar angle
orbit_PolarUp(c, dx, dy) ==
    LET offset == VSub(c.position, c.target)
        radius == VLength(offset)
        theta0 == Atan2(offset[3], offset[1])
        phi0   == Acos(Quot(offset[2] * 1000, radius))
        theta  == theta0 + dx * OrbitSpeedMrad
        phi    == Max(PhiMin, Min(PhiMax, phi0 + dy * OrbitSpeedMrad))
        rs     == Quot(radius * Sin(phi), 1000)
        new    == << Quot(rs * Cos(theta), 1000),
                     Quot(radius * Cos(phi), 1000),
                     Quot(rs * Sin(theta), 1000) >>
    IN  [c EXCEPT !.position = VAdd(c.target, new)]

\* Camera.orbit(dx, dy, orbitSpeed)
orbit(c, dx, dy) ==
    LET offset == VSub(c.position, c.target)
        radius == VLength(offset)
        theta0 == Atan2(offset[3], offset[1])
        phi0   == Acos(Quot(offset[2] * 1000, radius))
        theta  == theta0 + dx * OrbitSpeedMrad
        phi    == Max(PhiMin, Min(PhiMax, phi0 - dy * OrbitSpeedMrad))
        rs     == Quot(radius * Sin(phi), 1000)
        new    == << Quot(rs * Cos(theta), 1000),
                     Quot(radius * Cos(phi), 1000),
                     Quot(rs * Sin(theta), 1000) >>
    IN  [c EXCEPT !.position = VAdd(c.target, new)]

\* the default zoomSpeed, minRadius and maxRadius of zoom
DefaultZoom == [ speedNum |-> ZoomSpeedNum, speedDen |-> ZoomSpeedDen,
                 minRadius |-> MinRadius, maxRadius |-> MaxRadius ]

\* variant: the radius is clamped from below only
zoomBy_NoMax(c, delta, p) ==
    LET offset == VSub(c.position, c.target)
        radius == VLength(offset)
        r1     == Max(p.minRadius, radius + Quot(delta * p.speedNum, p.speedDen))
    IN  [c EXCEPT !.position = VAdd(c.target, VScale(VNormalize(offset), r1, 1000))]

\* Camera.zoom(delta, zoomSpeed, minRadius, maxRadius)
zoomBy(c, delta, p) ==
    LET offset == VSub(c.position, c.target)
        radius == VLength(offset)
        r1     == Max(p.minRadius,
                      Min(p.maxRadius, radius + Quot(delta * p.speedNum, p.speedDen)))
    IN  [c EXCEPT !.position = VAdd(c.target, VScale(VNormalize(offset), r1, 1000))]

\* Camera.zoom(delta) with the default speed and radii
zoom(c, delta) == zoomBy(c, delta, DefaultZoom)

\* the pan of the mousemove handler: position and target are translated
\* along right = normalize(forward x camera.up) and up = right x forward
pan(c, dx, dy) ==
    LET forward == VNormalize(VSub(c.target, c.position))
        right   == VNormalize(VCross(forward, c.up))
        up      == VCross(right, forward)
        shift   == VAdd(VScale(right, (0 - dx) * PanSpeed, 1000),
                        VScale(up, dy * PanSpeed, 1000))
    IN  [c EXCEPT !.position = VAdd(c.position, shift),
                  !.target = VAdd(c.target, shift)]

\* the camera Engine.create leaves: constructed at (0, 2, 4) with matrices
\* updated, then moved to (5, 8, 12) without an update
InitialCamera ==
    LET c0 == [ position |-> <<0, 2 * UNIT, 4 * UNIT>>,
                target   |-> <<0, 0, 0>>,
                aspect   |-> <<CanvasW, CanvasH>>,
                right    |-> <<0, 0, 0>>,
                up       |-> <<0, 0, 0>>,
                matrices |-> Matrices(<<0, 0, 0>>, <<0, 0, 0>>, <<1, 1>>) ]
    IN  [updateMatrices(c0) EXCEPT !.position = <<5 * UNIT, 8 * UNIT, 12 * UNIT>>]

\* the operations of the Camera leave everything but the camera as it is
CameraFrame(op, arg) ==
    /\ camMoves' = camMoves + 1
    /\ lastOp' = [op |-> op, arg |-> arg, idx |-> 0 - 1]
    /\ called' = <<>>
    /\ UNCHANGED <<registryVars, pickVars, inputVars>>

\* engine.camera.orbit(dx, dy), by a client of the Engine
CameraOrbit(dx, dy) ==
    /\ camera.position # camera.target
    /\ camera' = orbit(camera, dx, dy)
    /\ CameraFrame("orbit", <<dx, dy>>)

\* engine.camera.zoom(delta)
CameraZoom(delta) ==
    /\ camera.position # camera.target
    /\ camera' = zoom(camera, delta)
    /\ CameraFrame("zoom", delta)

\* engine.camera.zoom(delta, zoomSpeed, minRadius, maxRadius); the history
\* counts the zoom(100) calls with the default arguments made in a row
CameraZoomBy(delta, p) ==
    /\ camera.position # camera.target
    /\ camera' = zoomBy(camera, delta, p)
    /\ camMoves' = camMoves + 1
    /\ lastOp' = [op |-> "zoom", arg |-> <<delta, p>>,
                  idx |-> IF delta = 100 /\ p = DefaultZoom
                          THEN (IF lastOp.op = "zoom" THEN lastOp.idx ELSE 0) + 1
                          ELSE 0]
    /\ called' = <<>>
    /\ UNCHANGED <<registryVars, pickVars, inputVars>>

\* variant: lookAt recomputes the matrices
CameraLookAt_Updating(target) ==
    /\ camera' = updateMatrices([camera EXCEPT !.target = target])
    /\ CameraFrame("lookAt", target)

\* engine.camera.lookAt(target)
CameraLookAt(target) ==
    /\ camera' = [camera EXCEPT !.target = target]
    /\ CameraFrame("lookAt", target)

\* engine.camera.position = v, .target = v or .aspect = v
CameraAssign(field, v) ==
    /\ camera' = [camera EXCEPT ![field] = v]
    /\ CameraFrame("assign", <<field, v>>)

\* engine.camera.updateMatrices()
CameraUpdateMatrices ==
    /\ camera' = updateMatrices(camera)
    /\ CameraFrame("updateMatrices", NULL)

\* ------------------------------------------------------------------------
\* Fragment shader: the picking pass of fs_main
\* ------------------------------------------------------------------------
MAT_OBJ == 0
MAT_GIZMO_ARROW == 1
MAT_GIZMO == 2
MAT_GRID == 3

\* the hit record the constructor writes, and pick() returns for a miss
NoHit == <<0 - 1, 0 - 1>>

\* some fragment of the frame passes the picking condition of fs_main:
\* i32(fragCoord.x) < i32(mouse.x) && i32(fragCoord.y) == i32(mouse.y)
\*   && u32(picking) == 1
PickFragmentExists(u) ==
    /\ u.picking = 1
    /\ \E py \in 0..(CanvasH - 1) : py = u.mouse[2]
    /\ \E px \in 0..(CanvasW - 1) : px < u.mouse[1]

\* the fragments of the frame that pass the picking condition of fs_main
PickFragments(u) ==
    {f \in (0..(CanvasW - 1)) \X (0..(CanvasH - 1)) :
        f[1] < u.mouse[1] /\ f[2] = u.mouse[2] /\ u.picking = 1}

\* what pick() can return, over all scene geometries: a miss, an object
\* slot below objectCount, or an arrow of the gizmo when an object is active
PickOutcomes(count, activeIdx) ==
    {NoHit}
      \cup {<<MAT_OBJ, i>> : i \in 0..(count - 1)}
      \cup (IF activeIdx >= 0 THEN {<<MAT_GIZMO_ARROW, a>> : a \in 0..2} ELSE {})

\* Engine.render(t): the time uniform, the camera buffer, one frame.  The
\* frame is not drawn when the bound object buffer has been destroyed.
Render(t, hit) ==
    /\ lastUniforms' = MergeUniforms(lastUniforms, [NoPatch EXCEPT !.time = Some(t)])
    /\ uniformBuffer' = UniformData(lastUniforms')
    /\ cameraBuffer' = Some([position |-> camera.position, invViewProj |-> camera.matrices])
    /\ hit \in PickOutcomes(objectCountBuffer, uniformBuffer'.activeObjectIdx)
    /\ IF ~buffers[bindGroupObjectBuffer].destroyed /\ PickFragmentExists(uniformBuffer')
       THEN /\ objectHitBuffer' = hit
            /\ picked' = [picked EXCEPT !.hit = IF hit[1] = MAT_OBJ /\ hit[2] + 1 \in DOMAIN objects
                                               THEN objects[hit[2] + 1] ELSE NULL]
       ELSE hit = NoHit /\ objectHitBuffer' = objectHitBuffer /\ picked' = picked
    /\ lastOp' = [op |-> "render", arg |-> NULL, idx |-> 0 - 1]
    /\ called' = <<>>
    /\ UNCHANGED <<obj, objects, buffers, objectBuffer, bindGroupObjectBuffer,
                   objectCountBuffer, rm_activeObject, engine_activeObject,
                   startup, hierarchyPanel, globalId, added, dirty, editCount>>
    /\ UNCHANGED <<staging, collisionPending, lastCollision, readback>>
    /\ UNCHANGED <<inputVars, camera, camMoves>>

\* ------------------------------------------------------------------------
\* The distance functions of the shader (raymarch.wgsl).  Points and
\* distances are fixed-point lengths, ray directions are unit vectors in
\* thousandths, angles are in milliradians.
\* ------------------------------------------------------------------------
\* F(v), with v computed once
Bind(v, F(_)) == CHOOSE r \in {F(x) : x \in {v}} : TRUE

MAX_DIST == 100 * UNIT
MAX_DIST_PICK == 40 * UNIT
SURF_DIST_PICK == UNIT \div 10
MAX_STEPS_PICK == 64

\* the scene the shader reads: the bound object buffer (storage binding
\* `objects`), the objectCount uniform and uniforms.activeObjIdx
Scene(bufs, handle, count, activeIdx) ==
    [ objects |-> bufs[handle].data, objectCount |-> count, activeObjIdx |-> activeIdx ]

\* objects[i]
SceneObject(sc, i) == sc.objects[i + 1]

\* an SDFResult
SDFResult(dist, mat, idx) == [dist |-> dist, mat |-> mat, idx |-> idx]

VLength2(x, y) == ISqrt(x * x + y * y)

sd_sphere(p, r) == VLength(p) - r

\* k0 * (k0 - 1) / k1
EllipsoidDist(k0, k1) == IF k1 = 0 THEN MAX_DIST ELSE Quot(k0 * (k0 - 1000) * UNIT, 1000 * k1)

\* not a number, and below no distance, when a radius is zero
sd_ellipsoid(p, radii) ==
    IF \E k \in 1..3 : radii[k] = 0 THEN MAX_DIST
    ELSE EllipsoidDist(
            VLength(<<Quot(p[1] * 1000, radii[1]), Quot(p[2] * 1000, radii[2]),
                      Quot(p[3] * 1000, radii[3])>>),
            VLength(<<Quot(p[1] * 1000 * UNIT, radii[1] * radii[1]),
                      Quot(p[2] * 1000 * UNIT, radii[2] * radii[2]),
                      Quot(p[3] * 1000 * UNIT, radii[3] * radii[3])>>))

\* length(max(q, 0)) + min(max(q.x, max(q.y, q.z)), 0)
BoxDist(q) ==
    VLength(<<Max(q[1], 0), Max(q[2], 0), Max(q[3], 0)>>)
      + Min(Max(q[1], Max(q[2], q[3])), 0)

sd_box(p, b) == BoxDist(<<Abs(p[1]) - b[1], Abs(p[2]) - b[2], Abs(p[3]) - b[3]>>)

sd_torus(p, t) == VLength2(VLength2(p[1], p[3]) - t[1], p[2]) - t[2]

\* min(max(d.x, d.y), 0) + length(max(d, 0))
CylinderDist(dx, dy) == Min(Max(dx, dy), 0) + VLength2(Max(dx, 0), Max(dy, 0))

sd_cylinder(p, r, h) == CylinderDist(Abs(VLength2(p[1], p[3])) - r, Abs(p[2]) - h)

\* max(dot(c, (q, p.y - h)), -hh - p.y + h), c = (hh, r) / len
ConeDist(p, r, h, hh, len) ==
    Max(IF len = 0 THEN 0
        ELSE Quot(Quot(hh * 100000, len) * VLength2(p[1], p[3])
                    + Quot(r * 100000, len) * (p[2] - h), 1000),
        0 - hh - p[2] + h)

\* max(distance to the side, distance to the base plane)
sd_cone(p, r, h) == ConeDist(p, r, h, h * 2, ISqrt((4 * h * h + r * r) * 10000))

\* length(pa - ba * h) - r, h = clamp(dot(pa, ba) / dot(ba, ba), 0, 1)
CapsuleDist(pa, ba, bb, pb, r) ==
    VLength(VSub(pa, VScale(ba, IF bb = 0 THEN 0 ELSE Max(0, Min(1000, Quot(pb * 1000, bb))),
                            1000))) - r

VDot(a, b) == a[1] * b[1] + a[2] * b[2] + a[3] * b[3]

sd_capsule(p, a, b, r) ==
    CapsuleDist(VSub(p, a), VSub(b, a), VDot(VSub(b, a), VSub(b, a)),
                VDot(VSub(p, a), VSub(b, a)), r)

\* the rotation by the angle of cosine c and sine s
RotateX(p, c, s) == <<p[1], Quot(c * p[2] - s * p[3], 1000), Quot(s * p[2] + c * p[3], 1000)>>
RotateY(p, c, s) == <<Quot(c * p[1] + s * p[3], 1000), p[2], Quot(c * p[3] - s * p[1], 1000)>>
RotateZ(p, c, s) == <<Quot(c * p[1] - s * p[2], 1000), Quot(s * p[1] + c * p[2], 1000), p[3]>>

rotate_x(p, angle) == RotateX(p, Cos(angle), Sin(angle))
rotate_y(p, angle) == RotateY(p, Cos(angle), Sin(angle))
rotate_z(p, angle) == RotateZ(p, Cos(angle), Sin(angle))

\* degrees (fixed point) to milliradians: angle / 180.0 * PI
Radians(deg) == Quot(deg * PI_MRAD, 180 * UNIT)

\* the rotations sdf_primitive applies: about x, y and z, each only when
\* its angle is not zero
Rotated(p, rotation) ==
    Bind(IF rotation[1] # 0 THEN rotate_x(p, Radians(rotation[1])) ELSE p, LAMBDA q1 :
    Bind(IF rotation[2] # 0 THEN rotate_y(q1, Radians(rotation[2])) ELSE q1, LAMBDA q2 :
         IF rotation[3] # 0 THEN rotate_z(q2, Radians(rotation[3])) ELSE q2))

\* the switch of sdf_primitive
PrimitiveDist(q, primitiveType, scale) ==
    CASE primitiveType = 0 ->
           IF scale[2] = scale[1] /\ scale[3] = scale[1]
           THEN sd_sphere(q, scale[1]) ELSE sd_ellipsoid(q, scale)
      [] primitiveType = 1 -> sd_box(q, scale)
      [] primitiveType = 2 -> sd_torus(q, <<scale[1], scale[2]>>)
      [] primitiveType = 3 -> sd_cylinder(q, scale[1], scale[2])
      [] primitiveType = 4 -> sd_cone(q, scale[1], scale[2])
      [] primitiveType = 5 ->
           sd_capsule(q, <<0, 0 - (scale[2] \div 2), 0>>, <<0, scale[2] \div 2, 0>>, scale[1])
      [] OTHER -> MAX_DIST

sdf_primitive(p, primitiveType, scale, rotation) ==
    Bind(Rotated(p, rotation), LAMBDA q : PrimitiveDist(q, primitiveType, scale))

\* the distance of object o of the scene from p
ObjectDist(p, o) == sdf_primitive(VSub(p, o.position), o.primitive, o.scale, o.rotation)

\* if d < res.dist { res = (d, mat, idx) }
Nearer(res, d, mat, idx) == IF d < res.dist THEN SDFResult(d, mat, idx) ELSE res

\* the loop of get_dist_obj over objects[0 .. objectCount - 1]
RECURSIVE NearestObject(_, _, _, _)
NearestObject(p, sc, i, res) ==
    IF i >= sc.objectCount THEN res
    ELSE Bind(Nearer(res, Bind(SceneObject(sc, i), LAMBDA o : ObjectDist(p, o)), MAT_OBJ, i),
              LAMBDA res1 : NearestObject(p, sc, i + 1, res1))

get_dist_obj(p, sc) == NearestObject(p, sc, 0, SDFResult(MAX_DIST, 0 - 1, 0 - 1))

\* the three cones of get_dist_gizmo_arrow: q is the point relative to the
\* tracked object, s its scale * 1.2; the cones have diameter and height h
ArrowDist(q, s, h) ==
    Nearer(Nearer(Nearer(SDFResult(MAX_DIST, MAT_GIZMO_ARROW, 0),
                         sd_cone(rotate_z(VSub(q, <<s[1] + h, 0, 0>>), PI_MRAD \div 2), h, h),
                         MAT_GIZMO_ARROW, 0),
                  sd_cone(VSub(q, <<0, s[2] + h, 0>>), h, h),
                  MAT_GIZMO_ARROW, 1),
           sd_cone(rotate_x(VSub(q, <<0, 0, s[3] + h>>), 0 - (PI_MRAD \div 2)), h, h),
           MAT_GIZMO_ARROW, 2)

\* the arrow heads of the gizmo of the active object: cones of diameter
\* and height 0.1 at scale * 1.2 + 0.1 along each axis
get_dist_gizmo_arrow(p, sc) ==
    IF sc.activeObjIdx < 0 THEN SDFResult(MAX_DIST, MAT_GIZMO_ARROW, 0)
    ELSE Bind(SceneObject(sc, sc.activeObjIdx), LAMBDA trackedObj :
              Bind(VSub(p, trackedObj.position), LAMBDA q :
                   ArrowDist(q, VScale(trackedObj.scale, 12, 10), UNIT \div 10)))

\* the nearer of the object and the arrow distance
NearestOf(s, q, active) == IF active /\ q.dist < s.dist THEN q ELSE s

PickDist_Nearest(p, sc) ==
    NearestOf(get_dist_obj(p, sc), get_dist_gizmo_arrow(p, sc), sc.activeObjIdx >= 0)

\* if uniforms.activeObjIdx >= 0.0 { if q.dist < MAX_DIST { s = q; } }
ArrowOver(s, q, active) == IF active /\ q.dist < MAX_DIST THEN q ELSE s

\* the distance one step of pick() advances by: the object distance,
\* replaced by the arrow distance when an object is active and the arrow
\* distance is below MAX_DIST
PickDist(p, sc) ==
    ArrowOver(get_dist_obj(p, sc), get_dist_gizmo_arrow(p, sc), sc.activeObjIdx >= 0)

\* the point ro + rd * t
RayPoint(ro, rd, t) == VAdd(ro, VScale(rd, t, 1000))

\* the state of the loop of pick(): the distance marched, the result, and
\* whether the loop has returned
PickState(t, hit, done) == [t |-> t, hit |-> hit, done |-> done]

\* one iteration of the loop of pick(); `nearest` selects the distance
\* function (FALSE: that of pick())
PickStep(ro, rd, sc, nearest, st) ==
    IF st.done THEN st
    ELSE Bind(IF nearest THEN PickDist_Nearest(RayPoint(ro, rd, st.t), sc)
                         ELSE PickDist(RayPoint(ro, rd, st.t), sc),
              LAMBDA s :
                 IF s.dist < SURF_DIST_PICK THEN PickState(st.t, <<s.mat, s.idx>>, TRUE)
                 ELSE IF st.t + s.dist > MAX_DIST_PICK THEN PickState(st.t, NoHit, TRUE)
                 ELSE PickState(st.t + s.dist, NoHit, FALSE))

\* n iterations of the loop of pick(), the first n \div 2 of them and then
\* the rest
RECURSIVE PickMarch(_, _, _, _, _, _)
PickMarch(ro, rd, sc, nearest, st, n) ==
    IF st.done \/ n = 0 THEN st
    ELSE IF n = 1 THEN PickStep(ro, rd, sc, nearest, st)
    ELSE Bind(PickMarch(ro, rd, sc, nearest, st, n \div 2), LAMBDA st1 :
              PickMarch(ro, rd, sc, nearest, st1, n - (n \div 2)))

\* pick(ro, rd): vec2(type, index); no hit when MAX_STEPS_PICK steps have
\* been made
pick(ro, rd, sc) ==
    PickMarch(ro, rd, sc, FALSE, PickState(0, NoHit, FALSE), MAX_STEPS_PICK).hit

\* what the ray reaches first among the objects and the arrow heads
FirstReached(ro, rd, sc) ==
    PickMarch(ro, rd, sc, TRUE, PickState(0, NoHit, FALSE), MAX_STEPS_PICK).hit

\* ------------------------------------------------------------------------
\* The view ray of fs_main: ray_march and the choice of the shaded hit
\* ------------------------------------------------------------------------
\* 0.001, at the resolution of the fixed point
SURF_DIST == 1
MAX_STEPS == 256
\* 0.018, at the resolution of the fixed point
GRID_LINE_WIDTH == 2

\* q - tile_size * floor(q / tile_size + 0.5)
TileOffset(x, tile_size) == x - tile_size * ((2 * x + tile_size) \div (2 * tile_size))

sd_grid_2D(p, thickness, tile_size) ==
    Max(Min(Max(Abs(TileOffset(p[1], tile_size)) - thickness, 0),
            Max(Abs(TileOffset(p[3], tile_size)) - thickness, 0)),
        Abs(p[2]))

get_dist_grid(p) ==
    Nearer(SDFResult(MAX_DIST, 0 - 1, 0 - 1), sd_grid_2D(p, GRID_LINE_WIDTH, UNIT),
           MAT_GRID, 0 - 1)

\* the three lines of get_dist_gizmo: capsules of radius r from the centre
\* of the tracked object to s along each axis
LineDist(q, s, r) ==
    Nearer(Nearer(Nearer(SDFResult(MAX_DIST, MAT_GIZMO, 0),
                         sd_capsule(q, <<0, 0, 0>>, <<s[1], 0, 0>>, r), MAT_GIZMO, 0),
                  sd_capsule(q, <<0, 0, 0>>, <<0, s[2], 0>>, r), MAT_GIZMO, 1),
           sd_capsule(q, <<0, 0, 0>>, <<0, 0, s[3]>>, r), MAT_GIZMO, 2)

\* if c.dist < res.dist { res = c; }
NearerResult(res, c) == IF c.dist < res.dist THEN c ELSE res

\* the gizmo of the active object: three lines of radius 0.02 and the arrow
\* heads
get_dist_gizmo(p, sc) ==
    IF sc.activeObjIdx < 0 THEN SDFResult(MAX_DIST, MAT_GIZMO, 0)
    ELSE Bind(SceneObject(sc, sc.activeObjIdx), LAMBDA trackedObj :
              NearerResult(LineDist(VSub(p, trackedObj.position),
                                    VScale(trackedObj.scale, 12, 10), (2 * UNIT) \div 100),
                           get_dist_gizmo_arrow(p, sc)))

\* the scene distance: the grid, then the objects
get_dist(p, sc) ==
    NearerResult(NearerResult(SDFResult(MAX_DIST, 0 - 1, 0 - 1), get_dist_grid(p)),
                 get_dist_obj(p, sc))

\* the nearest of the grid, the objects and the gizmo
get_dist_WithGizmo(p, sc) == NearerResult(get_dist(p, sc), get_dist_gizmo(p, sc))

\* the distance ray_march steps by in a mode: 0 the scene, 1 the gizmo,
\* 2 the objects.  Mode 3 is no mode of the shader: it is the scene with
\* the gizmo in it.
MarchDist(p, sc, mode) ==
    CASE mode = 0 -> get_dist(p, sc)
      [] mode = 1 -> get_dist_gizmo(p, sc)
      [] mode = 2 -> get_dist_obj(p, sc)
      [] mode = 3 -> get_dist_WithGizmo(p, sc)

\* the state of the loop of ray_march: the distance marched, the result
\* of the last step, and whether the loop has returned
MarchState(total, res, done) == [total |-> total, res |-> res, done |-> done]

\* one iteration of the loop of ray_march
MarchStep(ro, rd, sc, mode, st) ==
    IF st.done THEN st
    ELSE Bind(MarchDist(RayPoint(ro, rd, st.total), sc, mode), LAMBDA s :
              MarchState(st.total + s.dist, s,
                         s.dist < SURF_DIST \/ st.total + s.dist > MAX_DIST))

\* n iterations of the loop, the first n \div 2 of them and then the rest
RECURSIVE MarchSteps(_, _, _, _, _, _)
MarchSteps(ro, rd, sc, mode, st, n) ==
    IF st.done \/ n = 0 THEN st
    ELSE IF n = 1 THEN MarchStep(ro, rd, sc, mode, st)
    ELSE Bind(MarchSteps(ro, rd, sc, mode, st, n \div 2), LAMBDA st1 :
              MarchSteps(ro, rd, sc, mode, st1, n - (n \div 2)))

\* ray_march(ro, rd, mode): the result of the last step, with the distance
\* marched as its dist
ray_march(ro, rd, mode, sc) ==
    Bind(MarchSteps(ro, rd, sc, mode,
                    MarchState(0, SDFResult(MAX_DIST, 0 - 1, 0 - 1), FALSE), MAX_STEPS),
         LAMBDA st : [st.res EXCEPT !.dist = st.total])

\* what is shaded for a hit: its material and index, or the sky
Shaded(hit) == IF hit.dist < MAX_DIST THEN <<hit.mat, hit.idx>> ELSE NoHit

\* if gizmo_hit.dist < MAX_DIST { hit = gizmo_hit; }
GizmoOver(hit, gizmo_hit) == IF gizmo_hit.dist < MAX_DIST THEN gizmo_hit ELSE hit

\* variant: the hit of the scene with the gizmo in it
ShadedHit_Nearest(ro, rd, sc) == Shaded(ray_march(ro, rd, 3, sc))

\* the hit fs_main shades for the view ray of a pixel: that of the scene,
\* replaced by that of the gizmo when an object is active and the gizmo
\* march ends below MAX_DIST
ShadedHit(ro, rd, sc) ==
    Shaded(IF sc.activeObjIdx >= 0
           THEN GizmoOver(ray_march(ro, rd, 0, sc), ray_march(ro, rd, 1, sc))
           ELSE ray_march(ro, rd, 0, sc))

\* ------------------------------------------------------------------------
\* RayMarcher.checkCollision / readCollisionBuffer
\* ------------------------------------------------------------------------
\* variant: no result is returned while a readback is pending
checkCollision_WhenIdle == IF collisionPending THEN None ELSE lastCollision

checkCollision == lastCollision

\* readCollisionBuffer without its gate
Gate_Never(pending) == FALSE

\* the gate at the head of readCollisionBuffer
Gate(pending) == pending

\* variant: the object of the slot is attached whatever the type
Decode_AlwaysObject(data, objs) ==
    [ type   |-> IF data[1] = 0 THEN "object"
                 ELSE IF data[1] = 1 THEN "gizmo" ELSE "null",
      idx    |-> data[2],
      object |-> IF data[2] + 1 \in DOMAIN objs
                 THEN Some(objs[data[2] + 1]) ELSE None ]

\* the IntersectItem readCollisionBuffer builds from the two scalars
Decode(data, objs) ==
    [ type   |-> IF data[1] = 0 THEN "object"
                 ELSE IF data[1] = 1 THEN "gizmo" ELSE "null",
      idx    |-> data[2],
      object |-> IF data[1] = 0 /\ data[2] + 1 \in DOMAIN objs
                 THEN Some(objs[data[2] + 1]) ELSE None ]

\* a call of readCollisionBuffer, up to its first await: returns at once
\* when a readback is pending; otherwise sets the flag and submits the copy
\* of the hit buffer into the staging buffer (rejected by the queue while
\* the staging buffer is mapped or being mapped)
ReadCollisionBuffer(k) ==
    /\ readback[k] = "idle"
    /\ \A j \in 1..(k - 1) : readback[j] # "idle"
    /\ IF Gate(collisionPending)
       THEN UNCHANGED <<staging, collisionPending, readback, picked>>
       ELSE /\ collisionPending' = TRUE
            /\ staging' = IF staging.mapState = "unmapped"
                          THEN [staging EXCEPT !.data = objectHitBuffer]
                          ELSE staging
            /\ picked' = IF staging.mapState = "unmapped"
                         THEN [picked EXCEPT !.staged = picked.hit]
                         ELSE picked
            /\ readback' = [readback EXCEPT ![k] = "workDone"]
    /\ lastOp' = [op |-> "readCollisionBuffer", arg |-> NULL,
                  idx |-> IF Gate(collisionPending) THEN 0 ELSE 1]
    /\ called' = <<>>
    /\ UNCHANGED <<objectHitBuffer, lastCollision, cameraBuffer>>
    /\ UNCHANGED <<registryVars, inputVars, camera, camMoves>>

\* variant: the pending flag is cleared when mapAsync is called
ReadWorkDone_ClearsFlag(k) ==
    /\ readback[k] = "workDone"
    /\ IF staging.mapState = "unmapped"
       THEN /\ staging' = [staging EXCEPT !.mapState = "pending"]
            /\ readback' = [readback EXCEPT ![k] = "map"]
       ELSE /\ staging' = staging
            /\ readback' = [readback EXCEPT ![k] = "idle"]
    /\ collisionPending' = FALSE
    /\ lastOp' = [op |-> "mapAsync", arg |-> NULL,
                  idx |-> IF staging.mapState = "unmapped" THEN 1 ELSE 0]
    /\ called' = <<>>
    /\ UNCHANGED <<objectHitBuffer, lastCollision, cameraBuffer, picked>>
    /\ UNCHANGED <<registryVars, inputVars, camera, camMoves>>

\* onSubmittedWorkDone has resolved: mapAsync is called.  On a buffer that
\* is mapped or being mapped mapAsync rejects, and the invocation ends there.
ReadWorkDone(k) ==
    /\ readback[k] = "workDone"
    /\ IF staging.mapState = "unmapped"
       THEN /\ staging' = [staging EXCEPT !.mapState = "pending"]
            /\ readback' = [readback EXCEPT ![k] = "map"]
       ELSE /\ staging' = staging
            /\ readback' = [readback EXCEPT ![k] = "idle"]
    /\ lastOp' = [op |-> "mapAsync", arg |-> NULL,
                  idx |-> IF staging.mapState = "unmapped" THEN 1 ELSE 0]
    /\ called' = <<>>
    /\ UNCHANGED <<objectHitBuffer, collisionPending, lastCollision, cameraBuffer, picked>>
    /\ UNCHANGED <<registryVars, inputVars, camera, camMoves>>

\* mapAsync has resolved: the mapped range is read, the buffer unmapped, the
\* flag cleared and the result stored
ReadMapped(k) ==
    /\ readback[k] = "map"
    /\ staging' = [staging EXCEPT !.mapState = "unmapped"]
    /\ collisionPending' = FALSE
    /\ lastCollision' = Some(Decode(staging.data, objects))
    /\ readback' = [readback EXCEPT ![k] = "idle"]
    /\ lastOp' = [op |-> "mapped", arg |-> NULL, idx |-> 0 - 1]
    /\ called' = <<>>
    /\ UNCHANGED <<objectHitBuffer, cameraBuffer, picked>>
    /\ UNCHANGED <<registryVars, inputVars, camera, camMoves>>

\* the promise an invocation awaits (onSubmittedWorkDone, mapAsync) rejects,
\* as it does when the device is lost: the async function ends with the
\* exception, at the await; a map that was pending is abandoned
ReadRejected(k) ==
    /\ readback[k] \in {"workDone", "map"}
    /\ staging' = [staging EXCEPT !.mapState = "unmapped"]
    /\ readback' = [readback EXCEPT ![k] = "idle"]
    /\ lastOp' = [op |-> "rejected", arg |-> NULL, idx |-> 0 - 1]
    /\ called' = <<>>
    /\ UNCHANGED <<objectHitBuffer, collisionPending, lastCollision, cameraBuffer, picked>>
    /\ UNCHANGED <<registryVars, inputVars, camera, camMoves>>

\* ------------------------------------------------------------------------
\* Engine: resize, setPicking and the event listeners
\* ------------------------------------------------------------------------
\* pointer positions relative to the canvas, as getMousePos returns them
MousePoints == {<<0, 4>>, <<4, 4>>, <<20, 20>>}
\* the positions of the pointer events of the engine specifications
ClickPoints == {<<4, 4>>, <<20, 12>>}
\* MouseEvent.button: left, middle, right
Buttons == {0, 1, 2}
\* WheelEvent.deltaY
WheelDeltas == {0 - 100, 100}
\* the movement below which a mouse-up counts as a click, in pixels
ClickSlop == 10

\* Engine.resize(width, height)
Resize(w, h) ==
    /\ lastUniforms' = MergeUniforms(lastUniforms, [NoPatch EXCEPT !.resolution = Some(<<w, h>>)])
    /\ uniformBuffer' = UniformData(lastUniforms')
    /\ camera' = updateMatrices([camera EXCEPT !.aspect = <<w, h>>])
    /\ lastOp' = [op |-> "resize", arg |-> NULL, idx |-> 0 - 1]
    /\ called' = <<>>
    /\ UNCHANGED <<obj, objects, buffers, objectBuffer, bindGroupObjectBuffer,
                   objectCountBuffer, rm_activeObject, engine_activeObject,
                   startup, hierarchyPanel, globalId, added, dirty, editCount>>
    /\ UNCHANGED <<pickVars, inputVars, camMoves>>

\* Engine.setPicking(state)
SetPicking(state) ==
    /\ lastUniforms' = MergeUniforms(lastUniforms, [NoPatch EXCEPT !.picking = Some(state)])
    /\ uniformBuffer' = UniformData(lastUniforms')
    /\ lastOp' = [op |-> "setPicking", arg |-> NULL, idx |-> 0 - 1]
    /\ called' = <<>>
    /\ UNCHANGED <<obj, objects, buffers, objectBuffer, bindGroupObjectBuffer,
                   objectCountBuffer, rm_activeObject, engine_activeObject,
                   startup, hierarchyPanel, globalId, added, dirty, editCount>>
    /\ UNCHANGED <<pickVars, inputVars, camera, camMoves>>

\* variant: the index of any item is captured, whatever its type
CapturedAxe_AnyType(item) ==
    IF IsSome(item) /\ Val(item).idx >= 0 /\ Val(item).idx <= 2
    THEN Some(Val(item).idx) ELSE None

\* the axis mousedown captures from the item checkCollision returns
CapturedAxe(item) ==
    IF IsSome(item) /\ Val(item).type = "gizmo"
                    /\ Val(item).idx >= 0 /\ Val(item).idx <= 2
    THEN Some(Val(item).idx) ELSE None

\* canvas 'mousedown'
MouseDown(x, y, button) ==
    /\ isLeftDown' = IF button = 0 THEN TRUE ELSE isLeftDown
    /\ isRightDown' = IF button = 2 THEN TRUE ELSE isRightDown
    /\ lastMouse' = <<x, y>>
    /\ lastMouseOnClick' = <<x, y>>
    /\ gizmoAxe' = CapturedAxe(checkCollision)
    /\ leftPressedAt' = IF button = 0 THEN Some(<<x, y>>) ELSE leftPressedAt
    /\ lastUniforms' = MergeUniforms(lastUniforms, [NoPatch EXCEPT !.mouse = Some(<<x, y, 1, 0>>)])
    /\ uniformBuffer' = UniformData(lastUniforms')
    /\ lastOp' = [op |-> "mousedown", arg |-> NULL, idx |-> 0 - 1]
    /\ called' = <<>>
    /\ UNCHANGED <<obj, objects, buffers, objectBuffer, bindGroupObjectBuffer,
                   objectCountBuffer, rm_activeObject, engine_activeObject,
                   startup, hierarchyPanel, globalId, added, dirty, editCount>>
    /\ UNCHANGED <<pickVars, camera, camMoves>>

\* the pointer is at least 10 px away from the press position, along x or y
MovedAway(x, y, down) ==
    Abs(x - down[1]) >= ClickSlop \/ Abs(y - down[2]) >= ClickSlop

\* variant: every mouse-up counts as a click
IsClick_Always(x, y, down) == TRUE

\* the mouse-up counts as a click
IsClick(x, y, down) ==
    Abs(x - down[1]) < ClickSlop /\ Abs(y - down[2]) < ClickSlop

\* variant: a click on the gizmo unselects like a click on empty space
ClickSelection_GizmoUnselects(item, active) ==
    IF IsSome(item) /\ Val(item).type = "object"
    THEN IF IsSome(Val(item).object) THEN Some(Val(Val(item).object)) ELSE None
    ELSE IF active # NULL THEN Some(NULL) ELSE None

\* what the click branch of mouseup does with the item: the object it
\* passes to selectObject (as an optional value), or None for no call
ClickSelection(item, active) ==
    IF IsSome(item) /\ Val(item).type = "object"
    THEN IF IsSome(Val(item).object) THEN Some(Val(Val(item).object)) ELSE None
    ELSE IF (~IsSome(item) \/ Val(item).type = "null") /\ active # NULL
         THEN Some(NULL) ELSE None

\* the callback the click branch invokes
ClickCallback(item, active) ==
    IF IsSome(item) /\ Val(item).type = "object"
    THEN IF IsSome(Val(item).object)
         THEN <<[cb |-> "onObjectSelected", arg |-> Val(Val(item).object)]>> ELSE <<>>
    ELSE IF (~IsSome(item) \/ Val(item).type = "null") /\ active # NULL
         THEN <<[cb |-> "onObjectUnselected", arg |-> active]>> ELSE <<>>

\* canvas 'mouseup' (the window 'mouseup' listener that runs after it
\* clears the same two flags again)
MouseUp(x, y, button) ==
    /\ isLeftDown' = IF button = 0 THEN FALSE ELSE isLeftDown
    /\ isRightDown' = IF button = 2 THEN FALSE ELSE isRightDown
    /\ LET click == IsClick(x, y, lastMouseOnClick)
           sel   == IF click THEN ClickSelection(checkCollision, engine_activeObject)
                    ELSE None
           lu1   == IF IsSome(sel) THEN SelectUniforms(lastUniforms, obj, Val(sel))
                    ELSE lastUniforms
       IN  /\ rm_activeObject' = IF IsSome(sel) THEN Val(sel) ELSE rm_activeObject
           /\ engine_activeObject' = IF IsSome(sel) THEN Val(sel) ELSE engine_activeObject
           /\ called' = IF click THEN ClickCallback(checkCollision, engine_activeObject)
                        ELSE <<>>
           /\ lastUniforms' = MergeUniforms(lu1, [NoPatch EXCEPT !.mouse = Some(<<x, y, 0, 0>>)])
           /\ uniformBuffer' = UniformData(lastUniforms')
    /\ lastMouse' = <<x, y>>
    /\ lastMouseOnClick' = <<x, y>>
    /\ leftPressedAt' = IF button = 0 THEN None ELSE leftPressedAt
    /\ lastOp' = [op |-> "mouseup", arg |-> NULL,
                  idx |-> (IF MovedAway(x, y, lastMouseOnClick) THEN 0 ELSE 1)
                           + (IF button = 0 /\ isLeftDown THEN 2 ELSE 0)]
    /\ UNCHANGED <<obj, objects, buffers, objectBuffer, bindGroupObjectBuffer,
                   objectCountBuffer, startup, hierarchyPanel, globalId, added, dirty, editCount>>
    /\ UNCHANGED <<pickVars, gizmoAxe, camera, camMoves>>

\* 'mouseup' outside the canvas: only the window listener runs
MouseUpWindow(button) ==
    /\ isLeftDown' = IF button = 0 THEN FALSE ELSE isLeftDown
    /\ isRightDown' = IF button = 2 THEN FALSE ELSE isRightDown
    /\ leftPressedAt' = IF button = 0 THEN None ELSE leftPressedAt
    /\ lastOp' = [op |-> "mouseupWindow", arg |-> NULL, idx |-> 0 - 1]
    /\ called' = <<>>
    /\ UNCHANGED <<registryVars, pickVars, lastMouse, lastMouseOnClick, gizmoAxe,
                   camera, camMoves>>

\* the translation the drag applies: delta = [-dx / width, dy / height, dx / width]
\* scaled by the distance
DragDelta(dx, dy, distance) ==
    << 0 - Quot(dx * distance, CanvasW),
       Quot(dy * distance, CanvasH),
       Quot(dx * distance, CanvasW) >>

\* the mousemove handler drags the active object
Drags(left, axe, active) == left /\ IsSome(axe) /\ active # NULL

\* variant: the orbit is not suppressed while a gizmo axis is dragged
Orbits_WhileDragging(left, axe, active) == left

\* the mousemove handler orbits the camera
Orbits(left, axe, active) == left /\ ~(IsSome(axe) /\ active # NULL)

\* window 'mousemove'
MouseMove(x, y) ==
    LET dx      == x - lastMouse[1]
        dy      == y - lastMouse[2]
        clickId == IF isLeftDown THEN 1 ELSE IF isRightDown THEN 2 ELSE 0
        drag    == Drags(isLeftDown, gizmoAxe, engine_activeObject)
        a       == engine_activeObject
        axe     == Val(gizmoAxe) + 1
        moved   == [obj EXCEPT ![a].position[axe] =
                      @ - DragDelta(dx, dy, VDist(obj[a].position, camera.position))[axe]]
        orbits  == Orbits(isLeftDown, gizmoAxe, engine_activeObject)
        cam1    == IF orbits THEN updateMatrices(orbit(camera, dx, dy)) ELSE camera
        cam2    == IF isRightDown THEN updateMatrices(pan(cam1, dx, dy)) ELSE cam1
    IN  /\ (orbits \/ isRightDown) => camMoves < MaxCamMoves
        /\ drag => editCount < MaxEdits
        /\ lastMouse' = <<x, y>>
        /\ lastUniforms' = MergeUniforms(lastUniforms,
                              [NoPatch EXCEPT !.mouse = Some(<<x, y, clickId, 0>>)])
        /\ uniformBuffer' = UniformData(lastUniforms')
        /\ IF drag
           THEN /\ obj' = moved
                /\ buffers' = SyncWrite(buffers, moved[a])
                /\ dirty' = [dirty EXCEPT ![a] = FALSE]
                /\ editCount' = editCount + 1
                /\ called' = <<[cb |-> "onObjectEdited", arg |-> a]>>
           ELSE /\ UNCHANGED <<obj, buffers, dirty, editCount>>
                /\ called' = <<>>
        /\ camera' = cam2
        /\ camMoves' = IF orbits \/ isRightDown THEN camMoves + 1 ELSE camMoves
        /\ lastOp' = [op |-> "mousemove", arg |-> NULL, idx |-> 0 - 1]
        /\ UNCHANGED <<objects, objectBuffer, bindGroupObjectBuffer, objectCountBuffer,
                       rm_activeObject, engine_activeObject, startup, hierarchyPanel, globalId, added>>
        /\ UNCHANGED <<pickVars, isLeftDown, isRightDown, lastMouseOnClick, gizmoAxe,
                       leftPressedAt>>

\* variant: the wheel handler zooms without updating the matrices
Wheel_NoUpdate(deltaY) ==
    /\ camMoves < MaxCamMoves
    /\ camMoves' = camMoves + 1
    /\ camera' = zoom(camera, deltaY)
    /\ lastOp' = [op |-> "wheel", arg |-> NULL, idx |-> 0 - 1]
    /\ called' = <<>>
    /\ UNCHANGED <<registryVars, pickVars, inputVars>>

\* canvas 'wheel'
Wheel(deltaY) ==
    /\ camMoves < MaxCamMoves
    /\ camMoves' = camMoves + 1
    /\ camera' = updateMatrices(zoom(camera, deltaY))
    /\ lastOp' = [op |-> "wheel", arg |-> NULL, idx |-> 0 - 1]
    /\ called' = <<>>
    /\ UNCHANGED <<registryVars, pickVars, inputVars>>

\* ------------------------------------------------------------------------
\* Initial state: Engine.create has returned (camera, ray marcher and event
\* listeners are constructed) and the application has constructed its
\* RayObjects; none is added yet
\* ------------------------------------------------------------------------
InitRegistry ==
    /\ obj = [o \in Objs |-> NewRayObject(o, SaltOf(o))]
    /\ objects = <<>>
    /\ buffers = <<CreateBuffer(GPU_DATA_SIZE_WPAD_BYTES * InitialRecords)>>
    /\ objectBuffer = 1
    /\ bindGroupObjectBuffer = 1
    /\ objectCountBuffer = 0
    /\ lastUniforms = NoPatch
    /\ uniformBuffer = [ resolution |-> <<0, 0>>, mouse |-> <<0, 0, 0, 0>>,
                         time |-> 0, deltaTime |-> 0, picking |-> 0,
                         activeObjectIdx |-> 0 ]
    /\ rm_activeObject = NULL
    /\ engine_activeObject = NULL
    /\ startup = Running
    /\ globalId = MaxObjects
    /\ added = {}
    /\ hierarchyPanel = [itemList |-> {}, activeItem |-> NULL]
    /\ dirty = [o \in Objs |-> FALSE]
    /\ editCount = 0

InitPick ==
    /\ objectHitBuffer = NoHit
    /\ staging = [data |-> <<0, 0>>, mapState |-> "unmapped"]
    /\ collisionPending = FALSE
    /\ lastCollision = None
    /\ readback = [k \in 1..MaxReadbacks |-> "idle"]
    /\ cameraBuffer = None
    /\ picked = [hit |-> NULL, staged |-> NULL]

InitInput ==
    /\ isLeftDown = FALSE
    /\ isRightDown = FALSE
    /\ lastMouse = <<0, 0>>
    /\ lastMouseOnClick = <<0, 0>>
    /\ gizmoAxe = None
    /\ leftPressedAt = None

InitRest ==
    /\ InitPick
    /\ InitInput
    /\ camera = InitialCamera
    /\ camMoves = 0
    /\ called = <<>>
    /\ lastOp = [op |-> "create", arg |-> NULL, idx |-> 0 - 1]

\* ------------------------------------------------------------------------
\* Specification of the object registry: any sequence of addObject,
\* removeObject, selectObject, attribute assignments and sync
\* ------------------------------------------------------------------------
Init == InitRegistry /\ InitRest

NextRegistry ==
    \/ \E o \in Objs : AddObject(o)
    \/ \E o \in Objs : RemoveObject(o)
    \/ \E o \in Objs \cup {NULL} : SelectObject(o)

SpecRegistry == Init /\ [][NextRegistry]_vars

\* ------------------------------------------------------------------------
\* Specification of the registry with attribute assignments and sync()
\* ------------------------------------------------------------------------
NextSync ==
    \/ NextRegistry
    \/ \E o \in Objs, f \in EditFields, v \in EditValues : EditAttribute(o, f, v)
    \/ \E o \in Objs : Sync(o)

SpecSync == Init /\ [][NextSync]_vars

\* ------------------------------------------------------------------------
\* Specification of the picking pass and its readback: frames are rendered
\* while readCollisionBuffer is invoked and its awaits resolve, in any
\* interleaving
\* ------------------------------------------------------------------------
\* the timestamp passed to Engine.render, in milliseconds
FrameTimes == {16}

NextPick ==
    \/ \E o \in SceneObjs : AddObject(o)
    \/ \E o \in SceneObjs : SelectObject(o)
    \/ SetPicking(TRUE)
    \/ \E p \in MousePoints : MouseDown(p[1], p[2], 0)
    \/ \E t \in FrameTimes, hit \in PickOutcomes(MaxObjects, 0) : Render(t, hit)
    \/ \E k \in 1..MaxReadbacks : ReadCollisionBuffer(k)
    \/ \E k \in 1..MaxReadbacks : ReadWorkDone(k)
    \/ \E k \in 1..MaxReadbacks : ReadMapped(k)

SpecPick == Init /\ [][NextPick]_vars

\* ------------------------------------------------------------------------
\* Specification of the Engine as the application drives it.  The initial
\* state is the one the application's start-up leaves: Engine.create,
\* resize(canvas.width, canvas.height), setPicking(true) and addObject of
\* the default object.  From there: the public methods of Engine, the
\* render loop and the event listeners.  Nothing in Engine invokes
\* RayMarcher.readCollisionBuffer.
\* ------------------------------------------------------------------------
InitApp ==
    /\ LET cube == [NewRayObject(1, SaltOf(1)) EXCEPT !._objectBuffer = Some(1),
                                                     !._device = Some("device"),
                                                     !._index = Some(0)]
           lu1  == MergeUniforms(NoPatch,
                      [NoPatch EXCEPT !.resolution = Some(<<CanvasW, CanvasH>>)])
           lu2  == MergeUniforms(lu1, [NoPatch EXCEPT !.picking = Some(TRUE)])
       IN  /\ obj = [o \in Objs |-> IF o = 1 THEN cube ELSE NewRayObject(o, SaltOf(o))]
           /\ objects = <<1>>
           /\ buffers = SyncWrite(<<CreateBuffer(GPU_DATA_SIZE_WPAD_BYTES * InitialRecords)>>,
                                  cube)
           /\ lastUniforms = lu2
           /\ uniformBuffer = UniformData(lu2)
    /\ objectBuffer = 1
    /\ bindGroupObjectBuffer = 1
    /\ objectCountBuffer = 1
    /\ rm_activeObject = NULL
    /\ engine_activeObject = NULL
    /\ startup = Running
    /\ globalId = MaxObjects
    /\ added = {1}
    /\ hierarchyPanel = [itemList |-> {1}, activeItem |-> NULL]
    /\ dirty = [o \in Objs |-> FALSE]
    /\ editCount = 0
    /\ InitPick
    /\ InitInput
    /\ camera = updateMatrices([InitialCamera EXCEPT !.aspect = <<CanvasW, CanvasH>>])
    /\ camMoves = 0
    /\ called = <<>>
    /\ lastOp = [op |-> "addObject", arg |-> 1, idx |-> 0]

\* the public methods of Engine, as the panels of the application call them
EngineCalls ==
    \/ \E o \in SceneObjs : AddObject(o)
    \/ \E o \in SceneObjs : RemoveObject(o)
    \/ \E o \in SceneObjs \cup {NULL} : SelectObject(o)

\* the render loop
Frame == \E t \in FrameTimes, hit \in PickOutcomes(MaxObjects, 0) : Render(t, hit)

\* the listeners setupEventListeners installs
PointerEvents ==
    \/ \E p \in ClickPoints, b \in Buttons : MouseDown(p[1], p[2], b)
    \/ \E p \in ClickPoints, b \in Buttons : MouseUp(p[1], p[2], b)
    \/ \E b \in Buttons : MouseUpWindow(b)
    \/ \E p \in ClickPoints : MouseMove(p[1], p[2])

\* the default object is selected, unselected and removed from the
\* hierarchy panel
NextEngine ==
    \/ RemoveObject(1)
    \/ \E o \in {1, NULL} : SelectObject(o)
    \/ Frame
    \/ PointerEvents
    \/ \E d \in WheelDeltas : Wheel(d)

SpecEngine == InitApp /\ [][NextEngine]_vars

\* ------------------------------------------------------------------------
\* Specifications of the pointer interaction with a render loop that reads
\* the hit result back: after each frame readCollisionBuffer is invoked and
\* runs to completion before the next event is dispatched (the free
\* interleavings of the readback are those of SpecPick)
\* ------------------------------------------------------------------------
Readback ==
    \/ \E k \in 1..MaxReadbacks : lastOp.op = "render" /\ ReadCollisionBuffer(k)
    \/ \E k \in 1..MaxReadbacks : ReadWorkDone(k)
    \/ \E k \in 1..MaxReadbacks : ReadMapped(k)

\* no readback is due or in flight
ReadbackIdle == lastOp.op # "render" /\ ~collisionPending

\* clicks: presses and releases on the canvas; the pointer moves while no
\* button is held
NextSelect ==
    \/ Readback
    \/ ReadbackIdle /\ EngineCalls
    \/ ReadbackIdle /\ Frame
    \/ ReadbackIdle /\ \E p \in ClickPoints, b \in Buttons : MouseDown(p[1], p[2], b)
    \/ ReadbackIdle /\ \E p \in ClickPoints, b \in Buttons : MouseUp(p[1], p[2], b)
    \/ ReadbackIdle /\ ~isLeftDown /\ ~isRightDown
          /\ \E p \in ClickPoints : MouseMove(p[1], p[2])

SpecSelect == InitApp /\ [][NextSelect]_vars

\* drags: the default object is selected from the hierarchy panel, buttons
\* are pressed on the canvas and released outside it, the pointer moves
NextDrag ==
    \/ Readback
    \/ ReadbackIdle /\ SelectObject(1)
    \/ ReadbackIdle /\ Frame
    \/ ReadbackIdle /\ \E p \in ClickPoints, b \in Buttons : MouseDown(p[1], p[2], b)
    \/ ReadbackIdle /\ \E p \in ClickPoints : MouseMove(p[1], p[2])
    \/ ReadbackIdle /\ \E b \in Buttons : MouseUpWindow(b)

SpecDrag == InitApp /\ [][NextDrag]_vars

\* left-button gestures: the default object is selected from the hierarchy
\* panel, the left button is pressed on the canvas and released on it or
\* outside it, the pointer moves
NextRelease ==
    \/ Readback
    \/ ReadbackIdle /\ SelectObject(1)
    \/ ReadbackIdle /\ Frame
    \/ ReadbackIdle /\ \E p \in ClickPoints : MouseDown(p[1], p[2], 0)
    \/ ReadbackIdle /\ \E p \in ClickPoints : MouseMove(p[1], p[2])
    \/ ReadbackIdle /\ \E p \in ClickPoints : MouseUp(p[1], p[2], 0)
    \/ ReadbackIdle /\ MouseUpWindow(0)

SpecRelease == InitApp /\ [][NextRelease]_vars

\* picking in a scene that is built and emptied: picking is switched on, the
\* first object is added, selected and removed, the pointer is pressed, and
\* the render loop reads the hit result back after each frame
NextScene ==
    \/ Readback
    \/ ReadbackIdle /\ SetPicking(TRUE)
    \/ ReadbackIdle /\ AddObject(1)
    \/ ReadbackIdle /\ RemoveObject(1)
    \/ ReadbackIdle /\ \E o \in {1, NULL} : SelectObject(o)
    \/ ReadbackIdle /\ \E p \in MousePoints : MouseDown(p[1], p[2], 0)
    \/ ReadbackIdle /\ Frame

SpecScene == Init /\ [][NextScene]_vars

\* ------------------------------------------------------------------------
\* Specification of the uniforms: partial updates by a client and by the
\* operations of the Engine that update a uniform, in any order
\* ------------------------------------------------------------------------
NextUniforms ==
    \/ \E patch \in Patches : UpdateUniforms(patch)
    \/ \E state \in BOOLEAN : SetPicking(state)
    \/ Resize(16, 8)
    \/ AddObject(1)
    \/ \E o \in {1, NULL} : SelectObject(o)

SpecUniforms == Init /\ [][NextUniforms]_vars

\* ------------------------------------------------------------------------
\* Specification of the ids: the client keeps the first object, which it
\* adds and removes, and constructs new objects one after the other
\* ------------------------------------------------------------------------
NextIds ==
    \/ \E salt \in IdSalts : CreateObject(2, salt)
    \/ AddObject(1)
    \/ RemoveObject(1)

SpecIds == Init /\ [][NextIds]_vars

\* ------------------------------------------------------------------------
\* Specification of the inspector: objects are added, selected and
\* unselected from the hierarchy panel and edited in the inspector
\* ------------------------------------------------------------------------
NextInspector ==
    \/ \E o \in SceneObjs : AddObject(o)
    \/ \E o \in SceneObjs \cup {NULL} : SelectObject(o)
    \/ \E name \in FieldNames : \E value \in FieldValues(name) : FieldChange(name, value)

SpecInspector == Init /\ [][NextInspector]_vars

\* ------------------------------------------------------------------------
\* Specification of the camera: a client calls the operations of
\* engine.camera in any order
\* ------------------------------------------------------------------------
\* pointer deltas of an orbit, in pixels: small ones and extreme ones
OrbitDeltas == {0 - 100000, 0 - 30, 0, 30, 100000}
\* targets of lookAt and values assigned to position
CameraPoints == {<<0, 0, 0>>, <<UNIT, 0, 2 * UNIT>>, <<0, 10 * UNIT, 0>>}

\* the bound of the exploration
CameraCallsLeft == camMoves < MaxCameraCalls

\* the camera is no nearer to its target than the least radius of zoom:
\* nearer than that, the offset has too few fixed-point digits for its
\* angles to be computed
OrbitResolved == VDist(camera.position, camera.target) >= MinRadius

NextCamera ==
    \/ CameraCallsLeft /\ OrbitResolved
          /\ \E dx \in {0, 30}, dy \in OrbitDeltas : CameraOrbit(dx, dy)
    \/ CameraCallsLeft /\ \E delta \in WheelDeltas : CameraZoom(delta)
    \/ CameraCallsLeft /\ \E t \in CameraPoints : CameraLookAt(t)
    \/ CameraCallsLeft /\ \E v \in CameraPoints : CameraAssign("position", v)
    \/ CameraCallsLeft /\ \E v \in CameraPoints : CameraAssign("target", v)
    \/ CameraCallsLeft /\ CameraAssign("aspect", <<16, 8>>)
    \/ CameraCallsLeft /\ CameraUpdateMatrices

SpecCamera == Init /\ [][NextCamera]_vars

\* ------------------------------------------------------------------------
\* Specification of the zoom: the client places the camera at distance 10
\* from the target and calls zoom
\* ------------------------------------------------------------------------
\* positions at distance 10 from the origin
ZoomStarts == {<<0, 0, 10 * UNIT>>, <<0, 6 * UNIT, 8 * UNIT>>, <<0 - 8 * UNIT, 6 * UNIT, 0>>}
\* arguments of zoom: the defaults, and speed 0.1 within radii 2 and 20
ZoomArgs == {DefaultZoom,
             [speedNum |-> UNIT, speedDen |-> 10, minRadius |-> 2 * UNIT,
              maxRadius |-> 20 * UNIT]}

InitZoom ==
    /\ InitRegistry
    /\ InitPick
    /\ InitInput
    /\ \E start \in ZoomStarts : camera = [InitialCamera EXCEPT !.position = start]
    /\ camMoves = 0
    /\ called = <<>>
    /\ lastOp = [op |-> "assign", arg |-> <<"position", camera.position>>, idx |-> 0 - 1]

NextZoom ==
    /\ camMoves < MaxZooms
    /\ \E delta \in WheelDeltas, p \in ZoomArgs : CameraZoomBy(delta, p)

SpecZoom == InitZoom /\ [][NextZoom]_vars

\* ------------------------------------------------------------------------
\* Engine.create(canvas) and initWebGPU(canvas), step by step
\* ------------------------------------------------------------------------
\* Engine.create has been called and nothing has been requested yet
Starting == [pc |-> "requestAdapter", requests |-> 0, listeners |-> FALSE, engine |-> FALSE]

\* variant: a failure starts initWebGPU again
Failed_Retry(st) == [st EXCEPT !.pc = "requestAdapter"]

\* throw Error(...): the promise of Engine.create rejects
Failed(st) == [st EXCEPT !.pc = "failed"]

\* a step of initWebGPU changes nothing of the engine to be
CreateFrame(what, available) ==
    /\ lastOp' = [op |-> "create", arg |-> what, idx |-> IF available THEN 1 ELSE 0]
    /\ called' = <<>>
    /\ UNCHANGED <<obj, objects, buffers, objectBuffer, bindGroupObjectBuffer,
                   objectCountBuffer, lastUniforms, uniformBuffer, rm_activeObject,
                   engine_activeObject, hierarchyPanel, globalId, added, dirty, editCount>>
    /\ UNCHANGED <<pickVars, inputVars, camera, camMoves>>

\* const adapter = await navigator.gpu.requestAdapter()
RequestAdapter(available) ==
    /\ startup.pc = "requestAdapter"
    /\ startup' = IF available
                  THEN [startup EXCEPT !.pc = "requestDevice", !.requests = @ + 1]
                  ELSE Failed([startup EXCEPT !.requests = @ + 1])
    /\ CreateFrame("adapter", available)

\* const device = await adapter.requestDevice()
RequestDevice(available) ==
    /\ startup.pc = "requestDevice"
    /\ startup' = IF available THEN [startup EXCEPT !.pc = "getContext"]
                  ELSE Failed(startup)
    /\ CreateFrame("device", available)

\* const context = canvas.getContext("webgpu")
GetContext(available) ==
    /\ startup.pc = "getContext"
    /\ startup' = IF available THEN [startup EXCEPT !.pc = "construct"]
                  ELSE Failed(startup)
    /\ CreateFrame("context", available)

\* context.configure, new Engine(), new Camera(), new RayMarcher(...),
\* setupEventListeners(canvas), return engine
Construct ==
    /\ startup.pc = "construct"
    /\ startup' = [startup EXCEPT !.pc = "running", !.listeners = TRUE, !.engine = TRUE]
    /\ CreateFrame("engine", TRUE)

\* the state when Engine.create is called: the fields of the Engine and
\* the locals of its listeners have the values their construction gives
\* them, and stand for nothing until then
InitCreate ==
    /\ obj = [o \in Objs |-> NewRayObject(o, SaltOf(o))]
    /\ objects = <<>>
    /\ buffers = <<CreateBuffer(GPU_DATA_SIZE_WPAD_BYTES * InitialRecords)>>
    /\ objectBuffer = 1
    /\ bindGroupObjectBuffer = 1
    /\ objectCountBuffer = 0
    /\ lastUniforms = NoPatch
    /\ uniformBuffer = [ resolution |-> <<0, 0>>, mouse |-> <<0, 0, 0, 0>>,
                         time |-> 0, deltaTime |-> 0, picking |-> 0,
                         activeObjectIdx |-> 0 ]
    /\ rm_activeObject = NULL
    /\ engine_activeObject = NULL
    /\ startup = Starting
    /\ globalId = MaxObjects
    /\ added = {}
    /\ hierarchyPanel = [itemList |-> {}, activeItem |-> NULL]
    /\ dirty = [o \in Objs |-> FALSE]
    /\ editCount = 0
    /\ InitRest

\* the application uses the Engine it was returned, and the browser
\* dispatches pointer events to the listeners that are installed
NextCreate ==
    \/ \E available \in BOOLEAN : RequestAdapter(available)
    \/ \E available \in BOOLEAN : RequestDevice(available)
    \/ \E available \in BOOLEAN : GetContext(available)
    \/ Construct
    \/ startup.engine /\ \E o \in SceneObjs : AddObject(o)
    \/ startup.engine /\ \E o \in SceneObjs \cup {NULL} : SelectObject(o)
    \/ startup.listeners /\ \E pt \in ClickPoints : MouseDown(pt[1], pt[2], 0)
    \/ startup.listeners /\ \E pt \in ClickPoints : MouseUp(pt[1], pt[2], 0)

SpecCreate == InitCreate /\ [][NextCreate]_vars

\* ------------------------------------------------------------------------
\* Specification of the readback with promises that may reject: the
\* application's start state, presses, frames and readCollisionBuffer
\* invocations whose awaits resolve or reject.  Every await settles.
\* ------------------------------------------------------------------------
NextSettle ==
    \/ \E p \in MousePoints : MouseDown(p[1], p[2], 0)
    \/ Frame
    \/ \E k \in 1..MaxReadbacks : ReadCollisionBuffer(k)
    \/ \E k \in 1..MaxReadbacks : ReadWorkDone(k)
    \/ \E k \in 1..MaxReadbacks : ReadMapped(k)
    \/ \E k \in 1..MaxReadbacks : ReadRejected(k)

Settles(k) == ReadWorkDone(k) \/ ReadMapped(k) \/ ReadRejected(k)

SpecSettle ==
    InitApp /\ [][NextSettle]_vars /\ \A k \in 1..MaxReadbacks : WF_vars(Settles(k))

\* ------------------------------------------------------------------------
\* Specification of the readback with a changing registry: from the
\* application's start state objects are added and removed while frames
\* are rendered and readCollisionBuffer invocations run, in any
\* interleaving
\* ------------------------------------------------------------------------
NextRace ==
    \/ \E o \in SceneObjs : AddObject(o)
    \/ \E o \in SceneObjs : RemoveObject(o)
    \/ \E p \in MousePoints : MouseDown(p[1], p[2], 0)
    \/ Frame
    \/ \E k \in 1..MaxReadbacks : ReadCollisionBuffer(k)
    \/ \E k \in 1..MaxReadbacks : ReadWorkDone(k)
    \/ \E k \in 1..MaxReadbacks : ReadMapped(k)

SpecRace == InitApp /\ [][NextRace]_vars

\* ------------------------------------------------------------------------
\* Specification of the view: from the state Engine.create leaves, the
\* canvas is resized, the camera is orbited, panned and zoomed with the
\* pointer and the wheel, and frames are rendered, in any order
\* ------------------------------------------------------------------------
\* the canvas sizes passed to Engine.resize
CanvasSizes == {<<16, 8>>, <<32, 32>>}
\* the pointer positions, and the buttons pressed and released
ViewPoints == {<<4, 4>>, <<20, 12>>}
ViewButtons == {0, 2}

NextView ==
    \/ \E s \in CanvasSizes : Resize(s[1], s[2])
    \/ \E p \in ViewPoints, b \in ViewButtons : MouseDown(p[1], p[2], b)
    \/ \E b \in ViewButtons : MouseUpWindow(b)
    \/ \E p \in ViewPoints : MouseMove(p[1], p[2])
    \/ \E d \in WheelDeltas : Wheel(d)
    \/ Frame

SpecView == Init /\ [][NextView]_vars

\* ------------------------------------------------------------------------
\* The application: the hierarchy panel and its wiring to the Engine.  An
\* item of the panel is named by the object its data.objectRef refers to.
\* ------------------------------------------------------------------------
\* hierarchyPanel.itemList.find(item => item.data.objectRef === obj) ?? null
ItemOf(o) == IF o # NULL /\ o \in hierarchyPanel.itemList THEN o ELSE NULL

\* HierarchyPanel.activateItem(item) with itemOnLeave and itemOnActive: the
\* arguments of the engine.selectObject calls it makes, in order
ActivateCalls(active, item) ==
    (IF active # NULL THEN <<NULL>> ELSE <<>>) \o (IF item # NULL THEN <<item>> ELSE <<>>)

\* lastUniforms after the selectObject calls
RECURSIVE SelectEach(_, _, _)
SelectEach(lu, objs, calls) ==
    IF calls = <<>> THEN lu
    ELSE SelectEach(SelectUniforms(lu, objs, Head(calls)), objs, Tail(calls))

\* the selection after the selectObject calls
SelectedAfter(active, calls) == IF calls = <<>> THEN active ELSE calls[Len(calls)]

\* addObject(obj) of the application, from the context menu of the panel
\* (create, copy): engine.addObject, hierarchyPanel.addItem and
\* hierarchyPanel.activateItem of the new item
AppAddObject(o) ==
    /\ o \notin added
    /\ added' = added \cup {o}
    /\ LET n     == Len(objects)
           grow  == NeedsGrow(n, buffers[objectBuffer])
           bufs1 == IF grow
                    THEN Append([buffers EXCEPT ![objectBuffer].destroyed = TRUE],
                                GrowCopy(buffers[objectBuffer]))
                    ELSE buffers
           ob1   == IF grow THEN Len(buffers) + 1 ELSE objectBuffer
           o1    == [obj[o] EXCEPT !._objectBuffer = Some(ob1),
                                   !._device = Some("device"),
                                   !._index = Some(n)]
           calls == ActivateCalls(hierarchyPanel.activeItem, o)
       IN  /\ objectBuffer' = ob1
           /\ obj' = [obj EXCEPT ![o] = o1]
           /\ objects' = Append(objects, o)
           /\ objectCountBuffer' = Len(objects) + 1
           /\ buffers' = SyncWrite(bufs1, o1)
           /\ dirty' = [dirty EXCEPT ![o] = FALSE]
           /\ lastUniforms' = SelectEach(lastUniforms, obj', calls)
           /\ uniformBuffer' = UniformData(lastUniforms')
           /\ rm_activeObject' = o
           /\ engine_activeObject' = o
           /\ lastOp' = [op |-> "appAddObject", arg |-> o, idx |-> n]
    /\ hierarchyPanel' = [itemList |-> hierarchyPanel.itemList \cup {o}, activeItem |-> o]
    /\ called' = <<>>
    /\ UNCHANGED <<bindGroupObjectBuffer, startup, globalId, editCount>>
    /\ UNCHANGED <<pickVars, inputVars, camera, camMoves>>

\* a click on the item of object o, or on the empty space of the panel
\* (item = NULL): hierarchyPanel.activateItem(item)
ItemClick(item) ==
    /\ item # NULL => item \in hierarchyPanel.itemList
    /\ LET calls == ActivateCalls(hierarchyPanel.activeItem, item)
       IN  /\ lastUniforms' = SelectEach(lastUniforms, obj, calls)
           /\ uniformBuffer' = IF calls = <<>> THEN uniformBuffer
                               ELSE UniformData(lastUniforms')
           /\ rm_activeObject' = SelectedAfter(rm_activeObject, calls)
           /\ engine_activeObject' = SelectedAfter(engine_activeObject, calls)
    /\ hierarchyPanel' = [hierarchyPanel EXCEPT !.activeItem = item]
    /\ lastOp' = [op |-> "itemClick", arg |-> item, idx |-> 0 - 1]
    /\ called' = <<>>
    /\ UNCHANGED <<obj, objects, buffers, objectBuffer, bindGroupObjectBuffer,
                   objectCountBuffer, startup, globalId, added, dirty, editCount>>
    /\ UNCHANGED <<pickVars, inputVars, camera, camMoves>>

\* 'Remove' of the context menu of an item: engine.removeObject of its
\* object, then hierarchyPanel.removeItem
ItemRemove(o) ==
    /\ o \in hierarchyPanel.itemList
    /\ IF RemoveIgnored(o)
       THEN UNCHANGED <<obj, objects, buffers, objectBuffer, bindGroupObjectBuffer,
                        objectCountBuffer, lastUniforms, uniformBuffer,
                        rm_activeObject, engine_activeObject, startup, globalId,
                        added, dirty, editCount>>
       ELSE LET idx     == Val(obj[o]._index)
                lastIdx == Len(objects) - 1
                lastObj == objects[lastIdx + 1]
                swap    == idx # lastIdx
                obj1    == IF swap THEN [obj EXCEPT ![lastObj]._index = Some(idx)] ELSE obj
                lu1     == IF swap /\ rm_activeObject = lastObj
                           THEN SelectUniforms(lastUniforms, obj1, lastObj)
                           ELSE lastUniforms
                clear   == ClearsSelection(rm_activeObject, o)
                lu2     == IF clear THEN SelectUniforms(lu1, obj1, NULL) ELSE lu1
            IN  /\ buffers' = IF swap
                              THEN SwapCopy(buffers, objectBuffer, idx, lastIdx)
                              ELSE buffers
                /\ objects' = SwapRemove(objects, idx)
                /\ objectCountBuffer' = Len(objects) - 1
                /\ lastUniforms' = lu2
                /\ uniformBuffer' = IF clear \/ (swap /\ rm_activeObject = lastObj)
                                    THEN UniformData(lu2) ELSE uniformBuffer
                /\ rm_activeObject' = IF clear THEN NULL ELSE rm_activeObject
                /\ obj' = [obj1 EXCEPT ![o] = Destroyed(obj1[o])]
                /\ UNCHANGED <<objectBuffer, bindGroupObjectBuffer,
                               engine_activeObject, startup, globalId, added, dirty, editCount>>
    \* removeItem takes the item out of itemList and leaves _activeItem
    /\ hierarchyPanel' = [hierarchyPanel EXCEPT !.itemList = @ \ {o}]
    /\ lastOp' = [op |-> "itemRemove", arg |-> o, idx |-> SelectIdx(obj, o)]
    /\ called' = <<>>
    /\ UNCHANGED <<pickVars, inputVars, camera, camMoves>>

\* canvas 'mouseup' with engine.onObjectSelected and onObjectUnselected
\* wired to hierarchyPanel.activateItem
AppMouseUp(x, y, button) ==
    /\ isLeftDown' = IF button = 0 THEN FALSE ELSE isLeftDown
    /\ isRightDown' = IF button = 2 THEN FALSE ELSE isRightDown
    /\ LET click == IsClick(x, y, lastMouseOnClick)
           sel   == IF click THEN ClickSelection(checkCollision, engine_activeObject)
                    ELSE None
           active == hierarchyPanel.activeItem
           \* this.selectObject(object); this.onObjectSelected(object), or
           \* this.onObjectUnselected(active); this.selectObject(null)
           calls == IF ~IsSome(sel) THEN <<>>
                    ELSE IF Val(sel) # NULL
                    THEN <<Val(sel)>> \o ActivateCalls(active, ItemOf(Val(sel)))
                    ELSE ActivateCalls(active, NULL) \o <<NULL>>
           lu1   == SelectEach(lastUniforms, obj, calls)
       IN  /\ rm_activeObject' = SelectedAfter(rm_activeObject, calls)
           /\ engine_activeObject' = SelectedAfter(engine_activeObject, calls)
           /\ hierarchyPanel' = IF IsSome(sel)
                                THEN [hierarchyPanel EXCEPT !.activeItem = ItemOf(Val(sel))]
                                ELSE hierarchyPanel
           /\ called' = IF click THEN ClickCallback(checkCollision, engine_activeObject)
                        ELSE <<>>
           /\ lastUniforms' = MergeUniforms(lu1, [NoPatch EXCEPT !.mouse = Some(<<x, y, 0, 0>>)])
           /\ uniformBuffer' = UniformData(lastUniforms')
    /\ lastMouse' = <<x, y>>
    /\ lastMouseOnClick' = <<x, y>>
    /\ leftPressedAt' = IF button = 0 THEN None ELSE leftPressedAt
    /\ lastOp' = [op |-> "mouseup", arg |-> NULL,
                  idx |-> (IF MovedAway(x, y, lastMouseOnClick) THEN 0 ELSE 1)
                           + (IF button = 0 /\ isLeftDown THEN 2 ELSE 0)]
    /\ UNCHANGED <<obj, objects, buffers, objectBuffer, bindGroupObjectBuffer,
                   objectCountBuffer, startup, globalId, added, dirty, editCount>>
    /\ UNCHANGED <<pickVars, gizmoAxe, camera, camMoves>>

\* ------------------------------------------------------------------------
\* Specification of the application: from the state its start-up leaves,
\* objects are created, clicked and removed in the hierarchy panel, the
\* canvas is clicked and frames are rendered.  Nothing in the application
\* invokes RayMarcher.readCollisionBuffer.
\* ------------------------------------------------------------------------
NextApp ==
    \/ \E o \in Objs : AppAddObject(o)
    \/ \E item \in Objs \cup {NULL} : ItemClick(item)
    \/ \E o \in Objs : ItemRemove(o)
    \/ \E p \in ClickPoints : MouseDown(p[1], p[2], 0)
    \/ \E p \in ClickPoints : AppMouseUp(p[1], p[2], 0)
    \/ Frame

SpecApp == InitApp /\ [][NextApp]_vars

\* ------------------------------------------------------------------------
\* Specification of the shader: the application has added a second cuboid
\* and placed it; objects are selected from the hierarchy panel, the
\* camera is moved, the pointer moves over the canvas and frames are
\* rendered.  The picking ray of a frame is given by the point of the
\* scene the pointer aims at.
\* ------------------------------------------------------------------------
\* positions of the second cuboid: beside the default one, behind it, and
\* between the initial camera and the default one
ShaderPositions == {<<3 * UNIT, 0, 0>>, <<0, 0, 0 - 3 * UNIT>>,
                    <<2 * UNIT, 3 * UNIT, 4 * UNIT>>}
\* positions of the camera
ShaderEyes == {<<0, 2 * UNIT, 4 * UNIT>>, <<10 * UNIT, 2 * UNIT, 0>>}
\* the points rays aim at: the centres of the cuboids, the head of the y
\* arrow of the default cuboid, and the sky
AimPoints ==
    ShaderPositions \cup {<<0, 0, 0>>, <<0, (13 * UNIT) \div 10, 0>>, <<0, 50 * UNIT, 0>>}

InitShader ==
    /\ \E pos \in ShaderPositions :
         LET cube  == [NewRayObject(1, SaltOf(1)) EXCEPT !._objectBuffer = Some(1),
                                                          !._device = Some("device"),
                                                          !._index = Some(0)]
             other == [NewRayObject(2, SaltOf(2)) EXCEPT !._objectBuffer = Some(1),
                                                          !._device = Some("device"),
                                                          !._index = Some(1),
                                                          !.position = pos]
             lu1   == MergeUniforms(NoPatch,
                        [NoPatch EXCEPT !.resolution = Some(<<CanvasW, CanvasH>>)])
             lu2   == MergeUniforms(lu1, [NoPatch EXCEPT !.picking = Some(TRUE)])
         IN  /\ obj = [o \in Objs |-> IF o = 1 THEN cube
                                      ELSE IF o = 2 THEN other
                                      ELSE NewRayObject(o, SaltOf(o))]
             /\ buffers = SyncWrite(SyncWrite(
                              <<CreateBuffer(GPU_DATA_SIZE_WPAD_BYTES * 2)>>, cube), other)
             /\ lastUniforms = lu2
             /\ uniformBuffer = UniformData(lu2)
    /\ objects = <<1, 2>>
    /\ objectBuffer = 1
    /\ bindGroupObjectBuffer = 1
    /\ objectCountBuffer = 2
    /\ rm_activeObject = NULL
    /\ engine_activeObject = NULL
    /\ startup = Running
    /\ globalId = MaxObjects
    /\ added = {1, 2}
    /\ hierarchyPanel = [itemList |-> {1, 2}, activeItem |-> NULL]
    /\ dirty = [o \in Objs |-> FALSE]
    /\ editCount = 0
    /\ InitPick
    /\ InitInput
    /\ camera = updateMatrices([InitialCamera EXCEPT !.aspect = <<CanvasW, CanvasH>>])
    /\ camMoves = 0
    /\ called = <<>>
    /\ lastOp = [op |-> "sync", arg |-> 2, idx |-> 0 - 1]

\* the scene a frame reads
FrameScene ==
    Scene(buffers, bindGroupObjectBuffer, objectCountBuffer,
          UniformData(lastUniforms).activeObjectIdx)

\* the direction of the ray from the camera to a point
RayTo(aim) == VNormalize(VSub(aim, camera.position))

\* what the picking pass of a frame writes for the ray to `aim`
PickedAt(aim) ==
    IF ~buffers[bindGroupObjectBuffer].destroyed
          /\ PickFragmentExists(UniformData(lastUniforms))
    THEN pick(camera.position, RayTo(aim), FrameScene)
    ELSE NoHit

\* a frame whose picking ray aims at `aim`
FrameRay(aim) == \E t \in FrameTimes : Render(t, PickedAt(aim))

NextShader ==
    \/ \E o \in SceneObjs \cup {NULL} : SelectObject(o)
    \/ CameraCallsLeft /\ \E v \in ShaderEyes : CameraAssign("position", v)
    \/ MouseMove(4, 4)
    \/ \E aim \in AimPoints : FrameRay(aim)

SpecShader == InitShader /\ [][NextShader]_vars

\* ------------------------------------------------------------------------
\* Properties
\* ------------------------------------------------------------------------
\* the objects that are in the registry
Live == {o \in Objs : IsSome(obj[o]._index)}

\* the attributes of an object as the record a buffer slot holds
RawRecord(o) ==
    [ position |-> o.position, rotation |-> o.rotation, scale |-> o.scale,
      color |-> o.color, primitive |-> o.primitive, id |-> o.id ]

\* object o is removed from the registry by this step
Removed(o) == IsSome(obj[o]._index) /\ obj'[o]._index = None

C2_RemovalStep ==
    \A o \in Objs :
        Removed(o) =>
            LET idx     == Val(obj[o]._index)
                lastIdx == Len(objects) - 1
                lastObj == objects[lastIdx + 1]
            IN  /\ Len(objects') = Len(objects) - 1
                /\ objectCountBuffer' = objectCountBuffer - 1
                /\ idx # lastIdx =>
                      /\ obj'[lastObj]._index = Some(idx)
                      /\ objects'[idx + 1] = lastObj
                /\ \A p \in Objs \ {o, lastObj} :
                      /\ obj'[p]._index = obj[p]._index
                      /\ IsSome(obj[p]._index) =>
                            objects'[Val(obj[p]._index) + 1] = p
                /\ idx = lastIdx =>
                      \A p \in Objs \ {o} : obj'[p]._index = obj[p]._index
                /\ (Len(objects) = 3 /\ idx = 0) =>
                      /\ objects' = <<objects[3], objects[2]>>
                      /\ obj'[objects[3]]._index = Some(0)
                      /\ obj'[objects[2]]._index = Some(1)
                      /\ objectCountBuffer' = 2
                /\ (Len(objects) = 2 /\ idx = 1) =>
                      /\ objects' = <<objects[1]>>
                      /\ objectCountBuffer' = 1

C2_RemovalReassignment == [][C2_RemovalStep]_vars

\* A, B, C were added, A was removed and then B: the registry is [C]
C2_Witness ==
    /\ lastOp.op = "removeObject" /\ lastOp.idx = 1
    /\ objects = <<3>>
    /\ obj[3]._index = Some(0)
    /\ added = {1, 2, 3}

\* C3: every live object has a slot index below the object count and, once
\* sync() has been invoked after its last attribute change, the object buffer
\* the renderer reads holds exactly its attributes at that slot.
C3_MirrorInvariant ==
    \A o \in Live :
        /\ Val(obj[o]._index) < objectCountBuffer
        /\ ~dirty[o] =>
              /\ ~buffers[bindGroupObjectBuffer].destroyed
              /\ RecordAt(buffers[bindGroupObjectBuffer], Val(obj[o]._index))
                    = Some(RawRecord(obj[o]))

\* C4: the record of every live object lies entirely inside the current
\* object buffer.
C4_RecordsInsideBuffer ==
    \A o \in Live :
        RangeValid(buffers[objectBuffer],
                   Val(obj[o]._index) * GPU_DATA_SIZE_WPAD_BYTES)

\* C5: when addObject replaces the object buffer, the new buffer has twice
\* the byte size of the old one and holds, at every slot of the old buffer,
\* the record the old buffer held there before the add.
C5_GrowStep ==
    objectBuffer' # objectBuffer =>
        /\ buffers'[objectBuffer'].size = 2 * buffers[objectBuffer].size
        /\ \A s \in DOMAIN buffers[objectBuffer].data :
              /\ s \in DOMAIN buffers'[objectBuffer'].data
              /\ buffers'[objectBuffer'].data[s] = buffers[objectBuffer].data[s]

C5_GrowthPreserves == [][C5_GrowStep]_vars

\* the buffer has been replaced and the new one holds the record of the
\* object that was added first
C5_Witness ==
    /\ objectBuffer # 1
    /\ Len(objects) >= 1
    /\ lastOp.op = "addObject"
    /\ buffers[objectBuffer].data[1] = RawRecord(obj[objects[1]])
    /\ buffers[objectBuffer].data[1] # ZeroRecord

\* C6: removeObject of the active object leaves no active object and the
\* activeObjectIdx uniform at -1, whichever slot the object occupied.
C6_RemoveActiveStep ==
    \A o \in Objs :
        (Removed(o) /\ rm_activeObject = o) =>
            /\ rm_activeObject' = NULL
            /\ lastUniforms'.activeObjectIdx = Some(0 - 1)
            /\ uniformBuffer'.activeObjectIdx = 0 - 1

C6_SelectionClearsOnRemoval == [][C6_RemoveActiveStep]_vars

\* the active object has been removed from a slot that was not the last
C6_Witness ==
    /\ lastOp.op = "removeObject" /\ lastOp.idx = 0
    /\ Len(objects) >= 1
    /\ engine_activeObject = lastOp.arg
    /\ rm_activeObject = NULL
    /\ uniformBuffer.activeObjectIdx = 0 - 1

\* ------------------------------------------------------------------------
\* C7: at most one invocation of readCollisionBuffer is past the gate at any
\* time; an invocation made while collisionPending is true changes nothing
\* (no copy, no map, no flag, no invocation left waiting), and mapAsync is
\* only ever called on the staging buffer while it is unmapped
\* ------------------------------------------------------------------------
C7_ReadbackStep ==
    /\ Cardinality({k \in DOMAIN readback' : readback'[k] # "idle"}) <= 1
    /\ (\E k \in DOMAIN readback' : readback'[k] # "idle") => collisionPending'
    /\ (lastOp'.op = "readCollisionBuffer" /\ collisionPending)
          => /\ UNCHANGED pickVars
             /\ lastOp'.idx = 0
    /\ lastOp'.op = "mapAsync" => staging.mapState = "unmapped"
    /\ staging'.mapState = "pending"
          => Cardinality({k \in DOMAIN readback' : readback'[k] = "map"}) = 1

C7_SingleReadbackInFlight == [][C7_ReadbackStep]_vars

\* a readback is waiting for its map and a further call has just been dropped
C7_Witness ==
    /\ lastOp.op = "readCollisionBuffer"
    /\ lastOp.idx = 0
    /\ collisionPending
    /\ \E k \in DOMAIN readback : readback[k] = "map"
    /\ staging.mapState = "pending"
    /\ objectHitBuffer # staging.data

\* ------------------------------------------------------------------------
\* C8: once the shader has written a hit into the hit buffer, the Engine
\* reads it back: when a pointer event (mousedown, mouseup) has been handled,
\* checkCollision is that hit and no longer the initial empty value
\* ------------------------------------------------------------------------
C8_HitStep ==
    (lastOp.op = "mousedown" /\ lastOp'.op = "mouseup" /\ objectHitBuffer # NoHit)
        => /\ IsSome(lastCollision')
           /\ Val(lastCollision') = Decode(objectHitBuffer, objects)

C8_HitReachesCpu == [][C8_HitStep]_vars

\* ------------------------------------------------------------------------
\* C9: a mouse-up that counts as a click changes the selection as the item
\* checkCollision returns says: an object is selected and reported through
\* onObjectSelected; no hit while an object is selected reports it through
\* onObjectUnselected and clears the selection; a gizmo hit changes nothing.
\* The selection changes in no other step than a mouse-up, selectObject or
\* removeObject: not when a frame is rendered, not when the pointer moves.
\* ------------------------------------------------------------------------
C9_ClickStep ==
    LET item   == lastCollision
        up     == lastOp'.op = "mouseup"
        click  == /\ up
                  /\ Abs(lastMouse'[1] - lastMouseOnClick[1]) < ClickSlop
                  /\ Abs(lastMouse'[2] - lastMouseOnClick[2]) < ClickSlop
        active == engine_activeObject
        nohit  == IF IsSome(item) THEN Val(item).type = "null" ELSE TRUE
        isObj  == IF IsSome(item)
                  THEN Val(item).type = "object" /\ IsSome(Val(item).object)
                  ELSE FALSE
        gizmo  == IF IsSome(item) THEN Val(item).type = "gizmo" ELSE FALSE
        o      == Val(Val(item).object)
        same   == /\ UNCHANGED <<engine_activeObject, rm_activeObject>>
                  /\ uniformBuffer'.activeObjectIdx = uniformBuffer.activeObjectIdx
    IN  /\ (click /\ isObj)
            => /\ engine_activeObject' = o
               /\ rm_activeObject' = o
               /\ called' = <<[cb |-> "onObjectSelected", arg |-> o]>>
               /\ uniformBuffer'.activeObjectIdx =
                     (IF IsSome(obj[o]._index) THEN Val(obj[o]._index) ELSE 0 - 1)
        /\ (click /\ nohit /\ active # NULL)
            => /\ called' = <<[cb |-> "onObjectUnselected", arg |-> active]>>
               /\ engine_activeObject' = NULL
               /\ rm_activeObject' = NULL
               /\ uniformBuffer'.activeObjectIdx = 0 - 1
        /\ (click /\ nohit /\ active = NULL) => (same /\ called' = <<>>)
        /\ (click /\ gizmo) => (same /\ called' = <<>>)
        /\ (up /\ ~click) => (same /\ called' = <<>>)
        /\ lastOp'.op \notin {"mouseup", "selectObject", "removeObject"} => same

C9_ClickSelection == [][C9_ClickStep]_vars

\* a click on the surface of the second object has selected it
C9_Witness ==
    /\ lastOp.op = "mouseup"
    /\ called = <<[cb |-> "onObjectSelected", arg |-> 2]>>
    /\ engine_activeObject = 2
    /\ rm_activeObject = 2
    /\ uniformBuffer.activeObjectIdx = 1

\* ------------------------------------------------------------------------
\* C10: while the left button is held with a gizmo axis captured and an
\* object active, a mouse-move changes only the captured component of the
\* position of the active object, by the pointer delta times the distance
\* between the object and the camera; it uploads the object (sync), calls
\* onObjectEdited, and leaves every other attribute and object unchanged.
\* ------------------------------------------------------------------------
\* the step is a mouse-move in state Dragging
C10_Dragging ==
    /\ isLeftDown
    /\ IsSome(gizmoAxe)
    /\ engine_activeObject # NULL
    /\ lastOp'.op = "mousemove"

\* what the step does to the objects and the callbacks
C10_ObjectEffect ==
    LET o    == engine_activeObject
        a    == Val(gizmoAxe) + 1
        dx   == lastMouse'[1] - lastMouse[1]
        dy   == lastMouse'[2] - lastMouse[2]
        dist == VDist(obj[o].position, camera.position)
        pos  == obj[o].position
        to   == IF a = 1 THEN pos[1] + Quot(dx * dist, CanvasW)
                ELSE IF a = 2 THEN pos[2] - Quot(dy * dist, CanvasH)
                ELSE pos[3] - Quot(dx * dist, CanvasW)
    IN  /\ obj'[o] = [obj[o] EXCEPT !.position[a] = to]
        /\ \A p \in Objs \ {o} : obj'[p] = obj[p]
        /\ called' = <<[cb |-> "onObjectEdited", arg |-> o]>>
        /\ (IsSome(obj[o]._index) /\ IsSome(obj[o]._objectBuffer))
              => LET b == buffers'[Val(obj[o]._objectBuffer)]
                 IN  RangeValid(b, Val(obj[o]._index) * GPU_DATA_SIZE_WPAD_BYTES)
                        => RecordAt(b, Val(obj[o]._index)) = Some(GPURecord(obj'[o]))
        /\ UNCHANGED <<engine_activeObject, rm_activeObject, objects>>

\* the claim as stated: the camera position and target do not change
C10_DragStepAsStated ==
    C10_Dragging
        => /\ C10_ObjectEffect
           /\ camera'.position = camera.position
           /\ camera'.target = camera.target

C10_DragKeepsCamera == [][C10_DragStepAsStated]_vars

\* as amended: the camera is not orbited; it is unchanged unless the right
\* button is held too, and then position and target move by the same vector
C10_DragStep ==
    C10_Dragging
        => /\ C10_ObjectEffect
           /\ ~isRightDown => camera' = camera
           /\ VSub(camera'.position, camera.position)
                 = VSub(camera'.target, camera.target)

C10_DragMovesAxis == [][C10_DragStep]_vars

\* an object has just been dragged along a captured axis to a new position
C10_Witness ==
    /\ lastOp.op = "mousemove"
    /\ called = <<[cb |-> "onObjectEdited", arg |-> 1]>>
    /\ isLeftDown
    /\ IsSome(gizmoAxe)
    /\ engine_activeObject = 1
    /\ obj[1].position # <<0, 0, 0>>
    /\ RecordAt(buffers[bindGroupObjectBuffer], 0) = Some(GPURecord(obj[1]))

\* ------------------------------------------------------------------------
\* C11: when the left button is released after a gizmo drag, the pointer
\* being at least 10 px away from the press position along x or y, the
\* object that was dragged stays selected and nothing else changes; and a
\* mouse-move with no button held changes neither an object nor the camera.
\* ------------------------------------------------------------------------
\* the step releases the left button in state Dragging: on the canvas away
\* from the press position, or outside the canvas
C11_Release ==
    /\ isLeftDown
    /\ IsSome(gizmoAxe)
    /\ engine_activeObject # NULL
    /\ \/ lastOp'.op = "mouseup" /\ lastOp'.idx = 2
       \/ lastOp'.op = "mouseupWindow" /\ ~isLeftDown'

C11_ReleaseStep ==
    C11_Release
        => /\ ~isLeftDown'
           /\ engine_activeObject' = engine_activeObject
           /\ rm_activeObject' = rm_activeObject
           /\ uniformBuffer'.activeObjectIdx = uniformBuffer.activeObjectIdx
           /\ called' = <<>>
           /\ UNCHANGED <<obj, objects, buffers, camera>>

C11_IdleMoveStep ==
    (~isLeftDown /\ ~isRightDown /\ lastOp'.op = "mousemove")
        => /\ called' = <<>>
           /\ UNCHANGED <<obj, objects, buffers, camera,
                          engine_activeObject, rm_activeObject>>

C11_ReleaseKeepsSelection == [][C11_ReleaseStep /\ C11_IdleMoveStep]_vars

\* the left button has just been released on the canvas, away from the
\* press position, after the selected object was dragged
C11_Witness ==
    /\ lastOp.op = "mouseup" /\ lastOp.idx = 2
    /\ ~isLeftDown
    /\ IsSome(gizmoAxe)
    /\ engine_activeObject = 1
    /\ rm_activeObject = 1
    /\ obj[1].position # <<0, 0, 0>>

\* ------------------------------------------------------------------------
\* C12: removeObject of an object that is not in the registry (never added,
\* or already removed) changes nothing: not the object list, the count
\* uniform, any object or slot index, the object buffer, or the selection.
\* ------------------------------------------------------------------------
\* the objects held in the objects array
Registered == {objects[i] : i \in DOMAIN objects}

C12_StaleRemoveStep ==
    (lastOp'.op = "removeObject" /\ lastOp'.arg \notin Registered)
        => UNCHANGED <<obj, objects, objectCountBuffer, buffers, objectBuffer,
                       bindGroupObjectBuffer, lastUniforms, uniformBuffer,
                       rm_activeObject, engine_activeObject>>

C12_StaleRemoveIgnored == [][C12_StaleRemoveStep]_vars

\* removeObject has just been called with an object that had been removed
\* before, while other objects are registered and one of them is selected
C12_Witness ==
    /\ lastOp.op = "removeObject"
    /\ lastOp.arg \in added \ Registered
    /\ lastOp.idx = 0 - 1
    /\ Len(objects) >= 2
    /\ rm_activeObject \in Registered

\* ------------------------------------------------------------------------
\* C13: removeObject leaves the removed object without GPU linkage
\* (_device, _objectBuffer, _index undefined); assigning an attribute of an
\* object that is not in the registry, or calling sync() on it, writes no
\* buffer and changes no other object, whether the object was removed or
\* never added.
\* ------------------------------------------------------------------------
C13_UnlinkStep ==
    \A o \in Objs :
        (lastOp'.op = "removeObject" /\ lastOp'.arg = o /\ o \in Registered)
            => /\ obj'[o]._device = None
               /\ obj'[o]._objectBuffer = None
               /\ obj'[o]._index = None

C13_StaleUseStep ==
    (lastOp'.op \in {"sync", "edit"} /\ lastOp'.arg \notin Registered)
        => /\ UNCHANGED <<buffers, objects, objectBuffer, objectCountBuffer,
                          uniformBuffer, rm_activeObject, engine_activeObject>>
           /\ \A p \in Objs \ {lastOp'.arg} : obj'[p] = obj[p]

C13_RemovedObjectInert == [][C13_UnlinkStep /\ C13_StaleUseStep]_vars

\* sync() has just been called on an object that was removed and then had
\* its position assigned, while another object is registered
C13_Witness ==
    /\ lastOp.op = "sync"
    /\ lastOp.arg \in added \ Registered
    /\ obj[lastOp.arg].position # <<0, 0, 0>>
    /\ Len(objects) >= 1

\* ------------------------------------------------------------------------
\* C14: sync() of a registered object writes its record (position,
\* rotation, scale, color, primitive, id, as they were set) at slot _index
\* of the object buffer and touches no other slot and no other buffer; a
\* second sync() with unchanged attributes leaves the buffers as they are.
\* ------------------------------------------------------------------------
C14_SyncStep ==
    \A o \in Registered :
        (lastOp'.op = "sync" /\ lastOp'.arg = o)
            => LET h   == Val(obj[o]._objectBuffer)
                   idx == Val(obj[o]._index)
               IN  /\ RecordAt(buffers'[h], idx) = Some(RawRecord(obj[o]))
                   /\ \A s \in DOMAIN buffers[h].data :
                          s # idx + 1 => buffers'[h].data[s] = buffers[h].data[s]
                   /\ \A g \in DOMAIN buffers : g # h => buffers'[g] = buffers[g]
                   /\ (lastOp.op = "sync" /\ lastOp.arg = o) => buffers' = buffers

C14_SyncWritesRecord == [][C14_SyncStep]_vars

\* ------------------------------------------------------------------------
\* C15: with no object in the scene and nothing selected, a frame rendered
\* with picking enabled, for any pointer position, followed by a readback
\* yields the empty hit: type null, index -1, no object.
\* ------------------------------------------------------------------------
\* the item of a miss
NoItem == [type |-> "null", idx |-> 0 - 1, object |-> None]

C15_EmptyPickStep ==
    ( /\ lastOp'.op = "mapped"
      /\ Len(objects) = 0
      /\ rm_activeObject = NULL
      /\ uniformBuffer.picking = 1
      /\ uniformBuffer.activeObjectIdx = 0 - 1 )
        => lastCollision' = Some(NoItem)

C15_EmptySceneNoHit == [][C15_EmptyPickStep]_vars

\* ------------------------------------------------------------------------
\* C16: checkCollision returns null until a readback has completed, then
\* the item of the readback that completed last; its result changes only in
\* the step that completes a readback (not when a readback is requested,
\* dropped or in flight, nor when a frame is rendered), and a listener that
\* calls it leaves the hit buffer, the staging buffer and the readback
\* state as they are.
\* ------------------------------------------------------------------------
C16_CacheStep ==
    /\ lastOp'.op # "mapped" => checkCollision' = checkCollision
    /\ lastOp'.op = "mapped"
          => checkCollision' = Some(Decode(staging.data, objects))
    /\ lastOp'.op = "mousedown"
          => UNCHANGED <<objectHitBuffer, staging, collisionPending, readback,
                         cameraBuffer>>

C16_CachedUntilSuperseded == checkCollision = None /\ [][C16_CacheStep]_vars

\* a readback request has just been dropped while the result of an earlier
\* readback, a hit on an object, is cached and the hit buffer holds a
\* different, newer result
C16_Witness ==
    /\ lastOp.op = "readCollisionBuffer" /\ lastOp.idx = 0
    /\ collisionPending
    /\ IsSome(lastCollision)
    /\ Val(lastCollision).type = "object"
    /\ objectHitBuffer = NoHit

\* ------------------------------------------------------------------------
\* C17: in a frame rendered with picking enabled and the pointer inside the
\* viewport, the picking pass runs in exactly one fragment, the one at the
\* pixel of the pointer, and that fragment writes the hit buffer.
\* ------------------------------------------------------------------------
C17_FrameStep ==
    LET u == uniformBuffer'
    IN  ( /\ lastOp'.op = "render"
          /\ u.picking = 1
          /\ u.mouse[1] \in 0..(CanvasW - 1)
          /\ u.mouse[2] \in 0..(CanvasH - 1) )
            => /\ PickFragments(u) = {<<u.mouse[1], u.mouse[2]>>}
               /\ PickFragmentExists(u)

C17_OnePickFragment == [][C17_FrameStep]_vars

\* ------------------------------------------------------------------------
\* C18: Engine.selectObject(o) makes o the selection of the engine and the
\* active object of the ray marcher and uploads o's slot index as the
\* activeObjectIdx uniform (-1 for null); it invokes no callback and changes
\* no object, slot, buffer or count.
\* ------------------------------------------------------------------------
C18_SelectStep ==
    lastOp'.op = "selectObject"
        => LET o == lastOp'.arg
           IN  /\ engine_activeObject' = o
               /\ rm_activeObject' = o
               /\ uniformBuffer'.activeObjectIdx
                     = IF o = NULL \/ obj[o]._index = None
                       THEN 0 - 1 ELSE Val(obj[o]._index)
               /\ lastUniforms'.activeObjectIdx = Some(uniformBuffer'.activeObjectIdx)
               /\ called' = <<>>
               /\ UNCHANGED <<obj, objects, buffers, objectBuffer, objectCountBuffer>>

C18_SelectObjectEffect == [][C18_SelectStep]_vars

\* the object in slot 0 has just been selected while another object was
\* the selection
C18_Witness ==
    /\ lastOp.op = "selectObject"
    /\ lastOp.arg # NULL
    /\ obj[lastOp.arg]._index = Some(0)
    /\ Len(objects) >= 2
    /\ engine_activeObject = lastOp.arg
    /\ rm_activeObject = lastOp.arg
    /\ uniformBuffer.activeObjectIdx = 0

\* ------------------------------------------------------------------------
\* C19: an update of the uniforms overwrites only the fields its patch
\* defines; every other field keeps the value of the most recent earlier
\* update, or is undefined if never set; and the block uploaded is the whole
\* merged state, with 0 / false / -1 for the fields never set.
\* ------------------------------------------------------------------------
\* the fields the patch of an operation defines
C19_Named(op) ==
    IF op.op = "updateUniforms" THEN {f \in UniformFields : op.arg[f] # None}
    ELSE IF op.op = "setPicking" THEN {"picking"}
    ELSE IF op.op = "resize" THEN {"resolution"}
    ELSE {"activeObjectIdx"}

\* what is uploaded for a field: its value, or its default
C19_Uploaded(f, v) ==
    IF f = "picking" THEN (IF v = Some(TRUE) THEN 1 ELSE 0)
    ELSE IF v # None THEN Val(v)
    ELSE IF f = "resolution" THEN <<0, 0>>
    ELSE IF f = "mouse" THEN <<0, 0, 0, 0>>
    ELSE IF f = "activeObjectIdx" THEN 0 - 1
    ELSE 0

C19_UpdateStep ==
    lastOp'.op \in {"updateUniforms", "setPicking", "resize", "selectObject"}
        => /\ \A f \in UniformFields \ C19_Named(lastOp') :
                  lastUniforms'[f] = lastUniforms[f]
           /\ lastOp'.op = "updateUniforms"
                  => \A f \in C19_Named(lastOp') : lastUniforms'[f] = lastOp'.arg[f]
           /\ \A f \in UniformFields :
                  uniformBuffer'[f] = C19_Uploaded(f, lastUniforms'[f])

C19_PartialUpdateRetains == [][C19_UpdateStep]_vars

\* an update of the time alone has just been uploaded after a resize and a
\* setPicking(true); the mouse and the active object were never set
C19_Witness ==
    /\ lastOp.op = "updateUniforms"
    /\ C19_Named(lastOp) = {"time"}
    /\ lastUniforms.resolution = Some(<<16, 8>>)
    /\ lastUniforms.activeObjectIdx = None
    /\ uniformBuffer = [ resolution |-> <<16, 8>>, mouse |-> <<0, 0, 0, 0>>,
                         time |-> 2, deltaTime |-> 0, picking |-> 1,
                         activeObjectIdx |-> 0 - 1 ]

\* ------------------------------------------------------------------------
\* C20: any two RayObjects constructed in the process, registered, removed
\* or neither, have different ids, whatever salts were drawn.
\* ------------------------------------------------------------------------
C20_UniqueIds == \A p, q \in Objs : p # q => obj[p].id # obj[q].id

\* ------------------------------------------------------------------------
\* C21: the field-edit callback of the inspector changes nothing when no
\* object is selected; with an object selected it assigns the attribute the
\* field names (Position, Rotation, Scale; Material to color, each channel
\* divided by 255), leaves the other attributes and the other objects as they
\* are, and calls sync on the object.
\* ------------------------------------------------------------------------
\* the value the claim gives the attribute, in hundredths
C21_Expected(name, value) ==
    IF name = "Material"
    THEN [k \in 1..3 |-> (value[k] * UNIT) \div 255]
    ELSE value

C21_FieldName(attr) == CHOOSE name \in FieldNames : FieldAttribute(name) = attr

C21_FieldChangeStep ==
    lastOp'.op = "fieldChange"
        => LET name  == lastOp'.arg[1]
               value == lastOp'.arg[2]
               o     == engine_activeObject
           IN  IF o = NULL
               THEN UNCHANGED <<registryVars, pickVars, inputVars, camera>>
               ELSE /\ \A f \in EditFields :
                          obj'[o][f] = IF C21_FieldName(f) = name
                                       THEN C21_Expected(name, value)
                                       ELSE obj[o][f]
                    /\ obj'[o].primitive = obj[o].primitive
                    /\ obj'[o].id = obj[o].id
                    /\ obj'[o]._index = obj[o]._index
                    /\ \A p \in Objs \ {o} : obj'[p] = obj[p]
                    /\ ~dirty'[o]
                    /\ ( /\ o \in Registered
                         /\ RangeValid(buffers[Val(obj[o]._objectBuffer)],
                                       Val(obj[o]._index) * GPU_DATA_SIZE_WPAD_BYTES) )
                          => RecordAt(buffers'[Val(obj[o]._objectBuffer)],
                                      Val(obj[o]._index)) = Some(RawRecord(obj'[o]))
                    /\ UNCHANGED <<objects, objectCountBuffer, lastUniforms,
                                   uniformBuffer, rm_activeObject, engine_activeObject>>

C21_FieldEdit == [][C21_FieldChangeStep]_vars

\* the Material field has just been edited with the object in slot 0
\* selected: its color is (1, 0.2, 0) and the record in the buffer has it
C21_Witness ==
    /\ lastOp.op = "fieldChange"
    /\ lastOp.arg = <<"Material", <<255, 51, 0>> >>
    /\ engine_activeObject # NULL
    /\ obj[engine_activeObject]._index = Some(0)
    /\ obj[engine_activeObject].color = <<UNIT, 20, 0>>
    /\ obj[engine_activeObject].position = <<0, 0, 0>>
    /\ RecordAt(buffers[objectBuffer], 0) = Some(RawRecord(obj[engine_activeObject]))

\* ------------------------------------------------------------------------
\* C22: after every orbit call, whatever dx and dy, the polar angle of
\* position - target lies in [0.1, pi - 0.1]: the horizontal distance from
\* the vertical through the target is at least tan(0.1) times the height
\* above or below the target (up to the resolution of the fixed-point
\* positions), and never zero.
\* ------------------------------------------------------------------------
\* tan(0.1), in thousandths
TanPhiMin == 100
\* the resolution of the horizontal distance of a camera: 0.03 for the
\* roundings of the fixed-point position, and two thousandths of the radius
\* for those of the sines
C22_Tol(c) == 3 + (2 * VDist(c.position, c.target)) \div 1000

\* the distance of the camera from the vertical through the target
C22_Horizontal(c) ==
    ISqrt((c.position[1] - c.target[1]) * (c.position[1] - c.target[1])
          + (c.position[3] - c.target[3]) * (c.position[3] - c.target[3]))

C22_Height(c) == Abs(c.position[2] - c.target[2])

C22_OrbitStep ==
    lastOp'.op = "orbit"
        => /\ 1000 * (C22_Horizontal(camera') + C22_Tol(camera')) >= TanPhiMin * C22_Height(camera')
           /\ C22_Horizontal(camera') > 0
           /\ camera'.target = camera.target

C23_Clamp(r, lo, hi) == IF r < lo THEN lo ELSE IF r > hi THEN hi ELSE r

C23_ZoomStep ==
    lastOp'.op = "zoom"
        => LET delta == lastOp'.arg[1]
               p     == lastOp'.arg[2]
               r0    == VDist(camera.position, camera.target)
           IN  /\ VDist(camera'.position, camera'.target)
                     = C23_Clamp(r0 + (delta * p.speedNum) \div p.speedDen,
                                 p.minRadius, p.maxRadius)
               /\ camera'.target = camera.target

C23_Scenario ==
    (lastOp.op = "zoom" /\ lastOp.idx = camMoves)
        => VDist(camera.position, camera.target)
              = (IF camMoves >= 8 THEN 50 ELSE 10 + 5 * camMoves) * UNIT

C23_ZoomClamps == []C23_Scenario /\ [][C23_ZoomStep]_vars

\* fifty zoom(100) calls with the default arguments have been made from
\* distance 10 and the camera is at distance 50
C23_Witness ==
    /\ lastOp.op = "zoom"
    /\ lastOp.idx = 50
    /\ camMoves = 50
    /\ camera.position = <<0, 30 * UNIT, 40 * UNIT>>

\* ------------------------------------------------------------------------
\* C24: orbit, zoom, lookAt and assignments of position, target and aspect
\* leave the matrices (and the axes derived with them) as the last
\* updateMatrices computed them; only updateMatrices changes them, to those
\* of the current position, target and aspect.
\* ------------------------------------------------------------------------
C24_CameraStep ==
    /\ lastOp'.op \in {"orbit", "zoom", "lookAt", "assign"}
          => /\ camera'.matrices = camera.matrices
             /\ camera'.right = camera.right
             /\ camera'.up = camera.up
    /\ lastOp'.op = "updateMatrices"
          => /\ camera'.matrices
                   = Matrices(camera.position, camera.target, camera.aspect)
             /\ camera'.position = camera.position
             /\ camera'.target = camera.target
             /\ camera'.aspect = camera.aspect
    /\ camera'.matrices # camera.matrices => lastOp'.op = "updateMatrices"

C24_ExplicitRecompute == [][C24_CameraStep]_vars

\* the matrices were computed at (5, 8, 12) and an orbit has moved the
\* camera since: they are stale
C24_Witness ==
    /\ lastOp.op = "orbit"
    /\ camMoves >= 2
    /\ camera.matrices.position = <<5 * UNIT, 8 * UNIT, 12 * UNIT>>
    /\ camera.position # camera.matrices.position
    /\ camera.matrices # Matrices(camera.position, camera.target, camera.aspect)

\* ------------------------------------------------------------------------
\* C25: Engine.create fails in the step that finds the adapter, the device
\* or the canvas context unavailable; after a failure no Engine has been
\* returned, no listener is installed or has run, requestAdapter was called
\* once, and nothing happens any more.
\* ------------------------------------------------------------------------
C25_FailStep ==
    /\ (lastOp'.op = "create" /\ lastOp'.idx = 0)
          => /\ startup'.pc = "failed"
             /\ ~startup'.engine
             /\ ~startup'.listeners
    /\ startup.pc = "failed" => UNCHANGED vars

C25_Failed ==
    /\ startup.requests <= 1
    /\ startup.pc = "failed"
          => /\ ~startup.engine
             /\ ~startup.listeners
             /\ lastOp.op = "create" /\ lastOp.idx = 0
             /\ objects = <<>>
             /\ ~isLeftDown /\ lastMouse = <<0, 0>>

C25_CreateFails == []C25_Failed /\ [][C25_FailStep]_vars

\* the adapter and the device were obtained and the canvas gave no
\* context: Engine.create has failed
C25_Witness ==
    /\ startup.pc = "failed"
    /\ startup.requests = 1
    /\ lastOp = [op |-> "create", arg |-> "context", idx |-> 0]
    /\ ~startup.engine
    /\ ~startup.listeners

\* ------------------------------------------------------------------------
\* C26: in the picking pass with an object active, a ray that reaches the
\* surface of an object other than the active one before any arrow head
\* reports that object (kind object, its slot index), and the pass reports
\* an arrow head only when an arrow head is what the ray reaches first.
\* Stated of every ray of the frame the state would render.
\* ------------------------------------------------------------------------
C26_PickTestsObjectsAndArrows ==
    \A aim \in AimPoints :
        LET first == FirstReached(camera.position, RayTo(aim), FrameScene)
            got   == pick(camera.position, RayTo(aim), FrameScene)
        IN  FrameScene.activeObjIdx >= 0 =>
              /\ (first[1] = MAT_OBJ /\ first[2] # FrameScene.activeObjIdx) => got = first
              /\ got[1] = MAT_GIZMO_ARROW => first[1] = MAT_GIZMO_ARROW

\* ------------------------------------------------------------------------
\* C27: Dragging(axis) is entered only by a press on a gizmo handle.  The
\* mousedown listener sets the held axis to the index of the item
\* checkCollision returns when that item is a gizmo handle with index 0, 1
\* or 2 and clears it otherwise; no other step changes the held axis, and
\* the state "left button held with an axis" is entered by such a press
\* only.
\* ------------------------------------------------------------------------
\* the item is a gizmo handle with an axis index
C27_OnHandle(item) ==
    /\ IsSome(item)
    /\ Val(item).type = "gizmo"
    /\ Val(item).idx \in 0..2

\* the left button is held with an axis captured
C27_Held == isLeftDown /\ IsSome(gizmoAxe)

C27_PressStep ==
    /\ lastOp'.op = "mousedown" =>
          gizmoAxe' = IF C27_OnHandle(lastCollision)
                      THEN Some(Val(lastCollision).idx) ELSE None
    /\ gizmoAxe' # gizmoAxe => lastOp'.op = "mousedown"
    /\ (~C27_Held /\ C27_Held') =>
          lastOp'.op = "mousedown" /\ C27_OnHandle(lastCollision)

C28_InFlight == {k \in 1..MaxReadbacks : readback[k] # "idle"}

\* the staging buffer is mapped or has a map pending only for the one
\* invocation in flight, and the flag is set while an invocation is in flight
C28_Exclusive ==
    /\ Cardinality(C28_InFlight) <= 1
    /\ collisionPending <=> C28_InFlight # {}
    /\ staging.mapState # "unmapped" <=> \E k \in 1..MaxReadbacks : readback[k] = "map"

C28_ReadbackStep ==
    \* the copy is encoded and submitted by an invocation that passed the
    \* gate, into the unmapped staging buffer
    /\ (lastOp'.op = "readCollisionBuffer" /\ lastOp'.idx = 1) =>
          /\ ~collisionPending /\ collisionPending'
          /\ staging.mapState = "unmapped"
          /\ staging' = [staging EXCEPT !.data = objectHitBuffer]
    \* an invocation the gate drops touches nothing
    /\ (lastOp'.op = "readCollisionBuffer" /\ lastOp'.idx = 0) =>
          UNCHANGED <<staging, collisionPending, readback, lastCollision>>
    \* the staging data change by that copy only
    /\ staging'.data # staging.data =>
          lastOp'.op = "readCollisionBuffer" /\ lastOp'.idx = 1
    \* mapAsync is called on the unmapped buffer, after the wait
    /\ lastOp'.op = "mapAsync" =>
          /\ staging.mapState = "unmapped" /\ staging'.mapState = "pending"
          /\ collisionPending /\ collisionPending'
    \* the scalars read are those copied; then unmap, then the flag
    /\ lastOp'.op = "mapped" =>
          /\ staging.mapState = "pending" /\ staging'.mapState = "unmapped"
          /\ lastCollision' = Some(Decode(staging.data, objects))
          /\ collisionPending /\ ~collisionPending'
    \* the flag is cleared by that last step only
    /\ (collisionPending /\ ~collisionPending') => lastOp'.op = "mapped"
    \* each invocation goes through its steps in order
    /\ \A k \in 1..MaxReadbacks :
          readback'[k] # readback[k] =>
             \/ readback[k] = "idle" /\ readback'[k] = "workDone"
                   /\ lastOp'.op = "readCollisionBuffer"
             \/ readback[k] = "workDone" /\ readback'[k] = "map"
                   /\ lastOp'.op = "mapAsync"
             \/ readback[k] = "map" /\ readback'[k] = "idle"
                   /\ lastOp'.op = "mapped"

C28_ReadbackOrder == []C28_Exclusive /\ [][C28_ReadbackStep]_vars

\* a readback has completed with the hit of a frame, after which another
\* one is in flight with its map pending
C28_Witness ==
    /\ IsSome(lastCollision)
    /\ Val(lastCollision).type = "object"
    /\ collisionPending
    /\ staging.mapState = "pending"
    /\ lastOp.op = "mapAsync"

\* ------------------------------------------------------------------------
\* C29 (as stated): the decoded hit result distinguishes the four hit kinds
\* no hit, scene object, gizmo arrow and gizmo line as four different
\* values of its type.
\* ------------------------------------------------------------------------
\* the four hit kinds, as the first scalar of the hit record
C29_HitKinds == {0 - 1, MAT_OBJ, MAT_GIZMO_ARROW, MAT_GIZMO}

C29_FourKindsDistinguished ==
    \A k1, k2 \in C29_HitKinds :
        k1 # k2 => Decode(<<k1, 0>>, objects).type # Decode(<<k2, 0>>, objects).type

\* ------------------------------------------------------------------------
\* C29 (amended): the decoded hit result has one of three types: "object"
\* for hit-kind 0, "gizmo" for hit-kind 1 (an arrow handle) and null for
\* every other hit-kind (no hit, and gizmo line and grid alike); its idx is
\* the second scalar, and for type "object", and only then, it carries the
\* object at the reported slot (undefined when the slot is past the end of
\* the array).
\* ------------------------------------------------------------------------
C29_DecodeStep ==
    lastOp'.op = "mapped" =>
        LET item == Val(lastCollision')
            kind == staging.data[1]
            slot == staging.data[2]
        IN  /\ IsSome(lastCollision')
            /\ item.type \in {"object", "gizmo", "null"}
            /\ item.type = "object" <=> kind = MAT_OBJ
            /\ item.type = "gizmo" <=> kind = MAT_GIZMO_ARROW
            /\ item.type = "null" <=> kind \notin {MAT_OBJ, MAT_GIZMO_ARROW}
            /\ item.idx = slot
            /\ item.object =
                  IF kind = MAT_OBJ /\ slot >= 0 /\ slot < Len(objects)
                  THEN Some(objects[slot + 1]) ELSE None

\* the hit-kinds that reach the decoding are those pick() returns
C29_KindsRead == staging.data[1] \in {0 - 1, MAT_OBJ, MAT_GIZMO_ARROW}

C29_ThreeTypes == []C29_KindsRead /\ [][C29_DecodeStep]_vars

\* a readback has decoded a hit on an arrow handle: type "gizmo" with the
\* axis as idx and no object, while an object is registered at that slot
C29_Witness ==
    /\ lastOp.op = "mapped"
    /\ lastCollision = Some([type |-> "gizmo", idx |-> 0, object |-> None])
    /\ Len(objects) >= 1

\* ------------------------------------------------------------------------
\* C30 (as stated): the shaded hit of a pixel is the nearest surface along
\* its ray among the grid, the objects and, when an object is selected,
\* the gizmo: the gizmo is shown only where the ray reaches it before any
\* object or grid line.  Stated of the view rays of every frame rendered.
\* ------------------------------------------------------------------------
C30_NearestSurfaceShaded ==
    lastOp.op = "render" =>
        \A aim \in AimPoints :
            ShadedHit(camera.position, RayTo(aim), FrameScene)
              = ShadedHit_Nearest(camera.position, RayTo(aim), FrameScene)

\* ------------------------------------------------------------------------
\* C30 (amended): the shaded hit of a pixel is the nearest surface along
\* its ray among the grid and the objects, except that, when an object is
\* selected and the march of the ray against the gizmo ends below MAX_DIST,
\* the gizmo is shaded instead, whether or not an object or a grid line is
\* nearer; with no selection the gizmo never contributes.
\* ------------------------------------------------------------------------
C30_GizmoKinds == {MAT_GIZMO, MAT_GIZMO_ARROW}

C30_GizmoOverlay ==
    lastOp.op = "render" => \A aim \in AimPoints :
        LET shaded == ShadedHit(camera.position, RayTo(aim), FrameScene)
            scene  == ray_march(camera.position, RayTo(aim), 0, FrameScene)
            gizmo  == ray_march(camera.position, RayTo(aim), 1, FrameScene)
            active == FrameScene.activeObjIdx >= 0
        IN  /\ ~active =>
                  /\ shaded = (IF scene.dist < MAX_DIST
                                THEN <<scene.mat, scene.idx>> ELSE NoHit)
                  /\ shaded[1] \notin C30_GizmoKinds
            /\ (active /\ gizmo.dist < MAX_DIST) =>
                  /\ shaded = <<gizmo.mat, gizmo.idx>>
                  /\ shaded[1] \in C30_GizmoKinds /\ shaded[2] \in 0..2
            /\ (active /\ gizmo.dist >= MAX_DIST) =>
                  /\ shaded = (IF scene.dist < MAX_DIST
                                THEN <<scene.mat, scene.idx>> ELSE NoHit)
                  /\ shaded[1] \notin C30_GizmoKinds

\* a frame was rendered in which, at some pixel, a line of the gizmo of the
\* selected object is shaded although the ray reaches an object first
C30_Witness ==
    /\ lastOp.op = "render"
    /\ FrameScene.activeObjIdx >= 0
    /\ \E aim \in AimPoints :
          /\ ShadedHit(camera.position, RayTo(aim), FrameScene)[1] = MAT_GIZMO
          /\ ShadedHit_Nearest(camera.position, RayTo(aim), FrameScene)[1] = MAT_OBJ

\* ------------------------------------------------------------------------
\* C31: orbit(dx, dy, speed) leaves the target of the camera unchanged and
\* preserves the distance from position to target; of the offset
\* position - target only the azimuth changes, by dx * speed, and the polar
\* angle, by -dy * speed, clamped to [0.1, pi - 0.1].  Distances and angles
\* are compared up to the resolution of the fixed-point position.
\* ------------------------------------------------------------------------
\* the angle of the vector (x, y) from the x axis, in milliradians, read
\* from the sign of the cross product with the direction of each angle
RECURSIVE C31_AngleIter(_, _, _, _)
C31_AngleIter(y, x, lo, hi) ==
    IF lo >= hi THEN lo
    ELSE IF y * Cos((lo + hi) \div 2) - x * Sin((lo + hi) \div 2) <= 0
         THEN C31_AngleIter(y, x, lo, (lo + hi) \div 2)
         ELSE C31_AngleIter(y, x, ((lo + hi) \div 2) + 1, hi)

C31_Angle(y, x) ==
    IF y >= 0 THEN C31_AngleIter(y, x, 0, PI_MRAD)
    ELSE 0 - C31_AngleIter(0 - y, x, 0, PI_MRAD)

\* azimuth and polar angle of position - target
C31_Azimuth(c) == C31_Angle(c.position[3] - c.target[3], c.position[1] - c.target[1])

C31_Polar(c) == C31_Angle(C22_Horizontal(c), c.position[2] - c.target[2])

\* the distance of two angles on the circle
C31_AngleDiff(a, b) ==
    LET d == (a - b) % TWO_PI_MRAD
    IN  Min(d, TWO_PI_MRAD - d)

\* the resolution of an angle read from a position: two hundredths of
\* length across an arm of the given length, and 10 mrad for the roundings
\* of the sines
C31_AngleTol(arm) == 10 + (2000 \div Max(arm, 1))

\* the angles orbit computes for the offset of a camera
C31_Theta0(c) == Atan2(c.position[3] - c.target[3], c.position[1] - c.target[1])

C31_Phi0(c) ==
    Acos(Quot((c.position[2] - c.target[2]) * 1000, VDist(c.position, c.target)))

C31_OrbitStep ==
    lastOp'.op = "orbit" =>
        LET dx  == lastOp'.arg[1]
            dy  == lastOp'.arg[2]
            phi == Max(PhiMin, Min(PhiMax, C31_Phi0(camera) - dy * OrbitSpeedMrad))
        IN  /\ camera'.target = camera.target
            /\ Abs(VDist(camera'.position, camera'.target)
                     - VDist(camera.position, camera.target)) <= C22_Tol(camera)
            /\ C31_AngleDiff(C31_Azimuth(camera'),
                              C31_Theta0(camera) + dx * OrbitSpeedMrad)
                  <= C31_AngleTol(C22_Horizontal(camera'))
            /\ Abs(C31_Polar(camera') - phi)
                  <= C31_AngleTol(VDist(camera'.position, camera'.target))
            /\ camera'.aspect = camera.aspect
            /\ camera'.matrices = camera.matrices

C32_ReleaseAfterMove ==
    /\ lastOp'.op = "mouseup"
    /\ IsSome(leftPressedAt)
    /\ leftPressedAt' = None
    /\ MovedAway(lastMouse'[1], lastMouse'[2], Val(leftPressedAt))

C32_ReleaseStep ==
    C32_ReleaseAfterMove =>
        /\ engine_activeObject' = engine_activeObject
        /\ rm_activeObject' = rm_activeObject
        /\ called' = <<>>

C32_MovedReleaseKeepsSelection == [][C32_ReleaseStep]_vars

\* ------------------------------------------------------------------------
\* C33: Engine.selectedObject and RayMarcher.activeObject are the same
\* object (or both null) and a selected object is a live object of the
\* registry; no operation of the Engine other than a selectObject call of
\* the client ends this, in particular not the removeObject of the selected
\* object.
\* ------------------------------------------------------------------------
C33_Consistent ==
    /\ engine_activeObject = rm_activeObject
    /\ engine_activeObject # NULL => engine_activeObject \in Live

C33_Step ==
    (C33_Consistent /\ lastOp'.op # "selectObject") => C33_Consistent'

C33_SelectionLive == C33_Consistent /\ [][C33_Step]_vars

\* ------------------------------------------------------------------------
\* C34: in every state reachable by addObject, removeObject and
\* selectObject calls, the activeObjectIdx uniform is the current slot index
\* of the active object, and it is -1 exactly when there is no active
\* object; also when an object is selected before it is added or after it
\* has been removed.
\* ------------------------------------------------------------------------
\* the activeObjectIdx every upload of the uniforms writes (Engine.render
\* uploads them before each frame)
C34_UniformIdx == UniformData(lastUniforms).activeObjectIdx

C34_ActiveIdxUniform ==
    /\ (rm_activeObject # NULL /\ rm_activeObject \in Live)
          => C34_UniformIdx = Val(obj[rm_activeObject]._index)
    /\ (C34_UniformIdx = 0 - 1) <=> (rm_activeObject = NULL)

\* ------------------------------------------------------------------------
\* C35: removeObject of an object other than the active one leaves the
\* active object the active object; when the swap moves the active object
\* into the vacated slot, the activeObjectIdx uniform is its new slot index
\* at the end of that call, and when the active object is not moved the
\* uniform is left as it was.
\* ------------------------------------------------------------------------
\* the step moves object a to another slot
C35_Moved(a) ==
    /\ a # NULL
    /\ IsSome(obj[a]._index) /\ IsSome(obj'[a]._index)
    /\ obj'[a]._index # obj[a]._index

C35_RemoveOtherStep ==
    \A o \in Objs :
        (Removed(o) /\ rm_activeObject # o) =>
            /\ rm_activeObject' = rm_activeObject
            /\ engine_activeObject' = engine_activeObject
            /\ C35_Moved(rm_activeObject) =>
                  /\ obj'[rm_activeObject]._index = obj[o]._index
                  /\ uniformBuffer'.activeObjectIdx = Val(obj[o]._index)
                  /\ lastUniforms'.activeObjectIdx = obj[o]._index
            /\ ~C35_Moved(rm_activeObject) =>
                  /\ uniformBuffer'.activeObjectIdx = uniformBuffer.activeObjectIdx
                  /\ lastUniforms'.activeObjectIdx = lastUniforms.activeObjectIdx

C35_ActiveFollowsSwap == [][C35_RemoveOtherStep]_vars

\* the object in slot 0 has been removed while the object of the last slot
\* was active: the active object is now in slot 0 and so says the uniform
C35_Witness ==
    /\ lastOp.op = "removeObject"
    /\ lastOp.idx = 0
    /\ rm_activeObject # NULL
    /\ rm_activeObject # lastOp.arg
    /\ obj[rm_activeObject]._index = Some(0)
    /\ uniformBuffer.activeObjectIdx = 0
    /\ Len(objects) >= 2

\* ------------------------------------------------------------------------
\* C36: the object buffer bound in the bind group of the render pass,
\* RayMarcher.objectBuffer and the _objectBuffer of every live object are
\* one and the same buffer, and it is not destroyed; also after an
\* addObject that grew the buffer.
\* ------------------------------------------------------------------------
C36_OneObjectBuffer ==
    /\ bindGroupObjectBuffer = objectBuffer
    /\ \A o \in Live : obj[o]._objectBuffer = Some(objectBuffer)
    /\ ~buffers[objectBuffer].destroyed
    /\ ~buffers[bindGroupObjectBuffer].destroyed

\* ------------------------------------------------------------------------
\* C37: every readback that sets collisionPending eventually clears it
\* again, also when an awaited promise rejects; the flag never stays true
\* for ever.
\* ------------------------------------------------------------------------
C37_PendingClears == collisionPending ~> ~collisionPending

\* ------------------------------------------------------------------------
\* C38: the object of a readback result of type object is the object that
\* occupied the reported slot when the picking pass wrote the hit, also
\* when objects are added or removed between the pick and the end of the
\* readback: never another object, never an undefined entry.
\* ------------------------------------------------------------------------
C38_ReadbackStep ==
    (lastOp'.op = "mapped" /\ Val(lastCollision').type = "object")
        => Val(lastCollision').object = Some(picked.staged)

C38_ResultNamesPickedObject == [][C38_ReadbackStep]_vars

\* ------------------------------------------------------------------------
\* C39: once Engine.resize has been called, the matrices of the camera are
\* the ones derived from its current position, target and aspect whenever
\* a handler of the Engine has returned, and a frame uploads these
\* matrices and the current position to the camera buffer.
\* ------------------------------------------------------------------------
\* Engine.resize has been called: it is the only operation of the view
\* that sets the resolution uniform
C39_Resized == IsSome(lastUniforms.resolution)

C39_Fresh(c) == c.matrices = Matrices(c.position, c.target, c.aspect)

C39_RenderStep ==
    (lastOp'.op = "render" /\ C39_Resized)
        => /\ Val(cameraBuffer').invViewProj
                = Matrices(camera.position, camera.target, camera.aspect)
           /\ Val(cameraBuffer').position = camera.position
           /\ camera' = camera

C39_FrameUploadsCurrentView ==
    /\ [](C39_Resized => C39_Fresh(camera))
    /\ [][C39_RenderStep]_vars

\* a frame rendered after a resize and a move of the camera
C39_Witness ==
    /\ lastOp.op = "render"
    /\ C39_Resized
    /\ camMoves > 0
    /\ camera.position # InitialCamera.position
    /\ camera.aspect # InitialCamera.aspect
    /\ Val(cameraBuffer).invViewProj = Matrices(camera.position, camera.target, camera.aspect)

\* ------------------------------------------------------------------------
\* C40: with the wiring of the application, after every add, click in the
\* hierarchy panel, click on the canvas and removal from the context menu,
\* the active item of the hierarchy panel is the item of
\* engine.selectedObject, and the panel has no active item exactly when
\* engine.selectedObject is null.
\* ------------------------------------------------------------------------
C40_PanelFollowsSelection ==
    /\ hierarchyPanel.activeItem = ItemOf(engine_activeObject)
    /\ (hierarchyPanel.activeItem = NULL) <=> (engine_activeObject = NULL)

====
